---- MODULE Spec2Model ----
(***************************************************************************)
(* Plugin discovery (skills-locate/src/discovery.rs), the flattening of a  *)
(* discovery result (skills-locate/src/types.rs), the parsers of plugin    *)
(* files (skills-locate/src/component/mcp.rs and hook.rs), the Droid MCP   *)
(* server parser (harness-locate/src/harness/droid.rs) and the parser of   *)
(* environment values it calls.                                            *)
(*                                                                         *)
(* Paths and names are TLA+ strings; the Rust string methods the code      *)
(* calls (starts_with, strip_prefix, contains, find, split, rsplit) are    *)
(* operators over them.  Option<T> is a sequence of length at most one.    *)
(***************************************************************************)
EXTENDS Naturals, Sequences, FiniteSets, TLC

VARIABLES
    pc,             \* position of discover_all or discover_plugins ("failed": left by a `?`)
    repo_url,       \* its argument
    github_ref,     \* Option: the parsed reference
    archive_bytes,  \* the fetched archive
    prefix,         \* the archive root prefix
    detected,       \* detect_plugins: Vec<DetectedPlugin>
    seen_paths,     \* detect_plugins: HashSet<String>
    next_det,       \* index of the next candidate the assembly loop takes
    plugins,        \* discover_all, discover_plugins: Vec<PluginDescriptor>
    outcome,        \* Option: the Result the entry point returns
    fetches,        \* number of fetch_bytes calls made
    market_plugins, \* discover_plugins: Option, marketplace.plugins once parsed
    flat_in,        \* from_plugins: its argument
    flat_out,       \* the DiscoveryResults it returned, first call first
    droid_in,       \* parse_mcp_server: its argument
    droid_out,      \* Option: the Result it returned
    mcp_in,         \* parse_mcp_json: the text it is given
    mcp_out,        \* Option: the Result it returned
    hooks_in,       \* parse_hooks_json: the text it is given
    hooks_out,      \* Option: the Result it returned
    env_in,         \* EnvValue::from_native: the string it is given
    env_out         \* Option: the EnvValue it returned

vars == <<pc, repo_url, github_ref, archive_bytes, prefix, detected, seen_paths,
          next_det, plugins, outcome, fetches, market_plugins, flat_in, flat_out, droid_in,
          droid_out, mcp_in, mcp_out, hooks_in, hooks_out, env_in, env_out>>

discoverVars == <<pc, repo_url, github_ref, archive_bytes, prefix, detected,
                  seen_paths, next_det, plugins, outcome, fetches,
                  market_plugins>>
flatVars == <<flat_in, flat_out>>
droidVars == <<droid_in, droid_out>>
mcpVars == <<mcp_in, mcp_out>>
hooksVars == <<hooks_in, hooks_out>>
envVars == <<env_in, env_out>>
parserVars == <<mcpVars, hooksVars, envVars>>

(***************************************************************************)
(* Option and Result                                                       *)
(***************************************************************************)
None == <<>>
Some(v) == <<v>>
IsSome(o) == o # <<>>
Ok(v) == [ok |-> TRUE, val |-> v]
Err(e) == [ok |-> FALSE, err |-> e]

(***************************************************************************)
(* Rust string methods                                                     *)
(***************************************************************************)
StartsWith(s, p) == Len(s) >= Len(p) /\ SubSeq(s, 1, Len(p)) = p

EndsWith(s, x) == Len(s) >= Len(x) /\ SubSeq(s, Len(s) - Len(x) + 1, Len(s)) = x

Contains(s, x) == \E i \in 1..(Len(s) + 1) :
    i + Len(x) - 1 <= Len(s) /\ SubSeq(s, i, i + Len(x) - 1) = x

\* str::strip_prefix: the rest of s after p, or None
StripPrefix(s, p) == IF StartsWith(s, p) THEN Some(SubSeq(s, Len(p) + 1, Len(s))) ELSE None

\* str::find('/'): the least position holding a slash, or None
FindSlash(s) ==
    LET at == {i \in 1..Len(s) : SubSeq(s, i, i) = "/"}
    IN  IF at = {} THEN None ELSE Some(CHOOSE i \in at : \A j \in at : i <= j)

\* s.split('/').next(): the text before the first slash (all of s without one)
FirstSegment(s) ==
    LET p == FindSlash(s)
    IN  IF IsSome(p) THEN SubSeq(s, 1, p[1] - 1) ELSE s

\* s.rsplit('/').next(): the text after the last slash (all of s without one)
LastSegment(s) ==
    LET at == {i \in 1..Len(s) : SubSeq(s, i, i) = "/"}
    IN  IF at = {} THEN s
        ELSE SubSeq(s, (CHOOSE i \in at : \A j \in at : j <= i) + 1, Len(s))

(***************************************************************************)
(* JSON values, as droid.rs reads them through serde_json::Value           *)
(***************************************************************************)
JStr(s) == [kind |-> "string", str |-> s, num |-> 0, bool |-> FALSE, items |-> <<>>,
            entries |-> <<>>]
JNum(n) == [kind |-> "number", str |-> "", num |-> n, bool |-> FALSE, items |-> <<>>,
            entries |-> <<>>]
JBool(b) == [kind |-> "bool", str |-> "", num |-> 0, bool |-> b, items |-> <<>>,
             entries |-> <<>>]
JNull == [kind |-> "null", str |-> "", num |-> 0, bool |-> FALSE, items |-> <<>>,
          entries |-> <<>>]
\* an array, its elements in order
JArr(items) == [kind |-> "array", str |-> "", num |-> 0, bool |-> FALSE, items |-> items,
                entries |-> <<>>]
\* an object: its members in iteration order, each a key and a value
JObj(entries) == [kind |-> "object", str |-> "", num |-> 0, bool |-> FALSE, items |-> <<>>,
                  entries |-> entries]
Member(k, v) == [key |-> k, value |-> v]

\* Map::get: the value of the member called key
Get(entries, key) ==
    LET at == {i \in 1..Len(entries) : entries[i].key = key}
    IN  IF at = {} THEN None ELSE Some(entries[CHOOSE i \in at : TRUE].value)

Keys(entries) == {entries[i].key : i \in 1..Len(entries)}

as_str(v) == IF v.kind = "string" THEN Some(v.str) ELSE None
as_bool(v) == IF v.kind = "bool" THEN Some(v.bool) ELSE None
as_u64(v) == IF v.kind = "number" THEN Some(v.num) ELSE None
as_array(v) == IF v.kind = "array" THEN Some(v.items) ELSE None
as_object(v) == IF v.kind = "object" THEN Some(v.entries) ELSE None

\* Option::and_then
GetStr(o) == IF IsSome(o) THEN as_str(o[1]) ELSE None
GetBool(o) == IF IsSome(o) THEN as_bool(o[1]) ELSE None
GetU64(o) == IF IsSome(o) THEN as_u64(o[1]) ELSE None

(***************************************************************************)
(* EnvValue::from_native (harness-locate types): the whole string ${NAME}  *)
(* is a reference to NAME, anything else a literal                         *)
(***************************************************************************)
EnvRef(name) == [variant |-> "EnvRef", text |-> name]
Plain(text) == [variant |-> "Plain", text |-> text]

\* braces, `$` and whitespace
NameBreakers == {"{", "}", "$", " ", "\t"}

\* from_native, taking whatever stands between ${ and the closing brace
from_native_unchecked(s) ==
    IF StartsWith(s, "${") /\ EndsWith(s, "}") /\ Len(s) >= 3
    THEN EnvRef(SubSeq(s, 3, Len(s) - 1)) ELSE Plain(s)

from_native(s) ==
    LET name == SubSeq(s, 3, Len(s) - 1)
    IN  IF /\ StartsWith(s, "${") /\ EndsWith(s, "}") /\ Len(s) >= 4
           /\ \A i \in 1..Len(name) : SubSeq(name, i, i) \notin NameBreakers
        THEN EnvRef(name) ELSE Plain(s)

(***************************************************************************)
(* Texts of archive entries.  A text is described by what the parsers of   *)
(* the repository read from it: whether it is well-formed at all, its      *)
(* `plugins` list (a marketplace manifest), its `name` and `description`   *)
(* (a plugin manifest, or the frontmatter of a component file) and, for    *)
(* hooks.json and .mcp.json, the JSON value it denotes; an entry may also  *)
(* be unreadable.                                                          *)
(***************************************************************************)
EmptyMap == <<>>

Garbage == [readable |-> TRUE, valid |-> FALSE, plugins |-> None, name |-> None,
            description |-> None, json |-> None]
MarketDoc(list) == [readable |-> TRUE, valid |-> TRUE, plugins |-> Some(list),
                    name |-> None, description |-> None, json |-> None]
ManifestDoc(n, d) == [readable |-> TRUE, valid |-> TRUE, plugins |-> None, name |-> n,
                      description |-> d, json |-> None]
\* a JSON text denoting the value v
JsonDoc(v) == [readable |-> TRUE, valid |-> TRUE, plugins |-> None, name |-> None,
               description |-> None, json |-> Some(v)]
\* an entry whose bytes extract_file cannot turn into text
Unreadable == [readable |-> FALSE, valid |-> FALSE, plugins |-> None, name |-> None,
               description |-> None, json |-> None]

\* PluginSource: Relative(path) | GitHub { github } | Url { url }
Relative(p) == [tag |-> "Relative", text |-> p]
GitHub(g) == [tag |-> "GitHub", text |-> g]
Url(u) == [tag |-> "Url", text |-> u]

\* the sources a marketplace entry of the model may carry
Sources == {Relative("./plugins/foo"), Relative("./"), GitHub("owner/tool")}

MaxMarketEntries == 2

RECURSIVE SeqsUpTo(_, _)
SeqsUpTo(S, n) ==
    IF n = 0 THEN {<<>>}
    ELSE LET shorter == SeqsUpTo(S, n - 1)
         IN  shorter \cup {Append(q, x) : q \in {r \in shorter : Len(r) = n - 1}, x \in S}

MarketLists == SeqsUpTo(Sources, MaxMarketEntries)

\* the entries an archive of the model may hold, in listing order, each with
\* the texts it may have
Slots == <<
    [path |-> "repo-main/.claude-plugin/marketplace.json",
     docs |-> {Garbage} \cup {MarketDoc(l) : l \in MarketLists}],
    [path |-> "repo-main/.claude-plugin/plugin.json",
     docs |-> {Garbage, ManifestDoc(None, None), ManifestDoc(Some(""), None),
               ManifestDoc(Some("Root"), Some("whole repo"))}],
    [path |-> "repo-main/plugins/foo/.claude-plugin/plugin.json",
     docs |-> {Garbage, ManifestDoc(Some(""), None), ManifestDoc(Some("Foo"), None)}],
    [path |-> "repo-main/plugins/bar/plugin.json",
     docs |-> {ManifestDoc(Some("Bar"), Some("bar plugin"))}],
    [path |-> "repo-main/skills/review/SKILL.md",
     docs |-> {ManifestDoc(Some("review"), None)}],
    [path |-> "repo-main/commands/fix.md",
     docs |-> {ManifestDoc(Some("fix"), None)}],
    [path |-> "repo-main/agents/helper.md",
     docs |-> {ManifestDoc(Some("helper"), None)}] >>

\* the listings that hold, in order, some of the entries slots[i], slots[i+1],
\* ..., each with one of its texts
RECURSIVE FilesOf(_, _)
FilesOf(slots, i) ==
    IF i > Len(slots) THEN {<<>>}
    ELSE LET rest == FilesOf(slots, i + 1)
         IN  rest \cup {<<[path |-> slots[i].path, content |-> d]>> \o r :
                            d \in slots[i].docs, r \in rest}

FilesFrom(i) == FilesOf(Slots, i)

\* an archive: its entries in listing order, or bytes that do not decode
Corrupt == [corrupt |-> TRUE, files |-> <<>>]
Archives == {[corrupt |-> FALSE, files |-> f] : f \in FilesFrom(1)} \cup {Corrupt}

(***************************************************************************)
(* The archive primitives (crate::fetch) and the parsers discovery.rs      *)
(* calls                                                                   *)
(***************************************************************************)
\* list_files(archive, suffix): the paths ending in suffix, in listing order
list_files(archive, suffix) ==
    IF archive.corrupt THEN Err("Archive")
    ELSE LET paths == [i \in 1..Len(archive.files) |-> archive.files[i].path]
         IN  Ok(SelectSeq(paths, LAMBDA p : EndsWith(p, suffix)))

\* extract_file(archive, path): the text of the entry at path
extract_file(archive, path) ==
    LET at == {i \in 1..Len(archive.files) : archive.files[i].path = path}
        first == CHOOSE i \in at : \A j \in at : i <= j
    IN  IF archive.corrupt \/ at = {} THEN Err("NotFound")
        ELSE IF ~archive.files[first].content.readable THEN Err("Archive")
        ELSE Ok(archive.files[first].content)

\* serde_json::from_str::<Marketplace>
ParseMarketplace(content) ==
    IF content.valid /\ IsSome(content.plugins)
    THEN Ok([plugins |-> content.plugins[1]]) ELSE Err("JsonParse")

\* serde_json::from_str::<PluginJson>: name is required, description optional
ParsePluginJson(content) ==
    IF content.valid /\ IsSome(content.name)
    THEN Ok([name |-> content.name[1], description |-> content.description])
    ELSE Err("JsonParse")

\* component::parse_skill_descriptor: the frontmatter must carry a name
parse_skill_descriptor(content) ==
    IF content.valid /\ IsSome(content.name)
    THEN Ok([name |-> content.name[1], description |-> content.description])
    ELSE Err("Frontmatter")

\* component::parse_command_descriptor(content, kind)
parse_command_descriptor(content, kind) ==
    IF content.valid /\ IsSome(content.name)
    THEN Ok([name |-> content.name[1], description |-> content.description, kind |-> kind])
    ELSE Err("Frontmatter")

\* component::parse_agent_descriptor
parse_agent_descriptor(content) ==
    IF content.valid /\ IsSome(content.name)
    THEN Ok([name |-> content.name[1], description |-> content.description])
    ELSE Err("Frontmatter")


(***************************************************************************)
(* component/mcp.rs: parse_mcp_json.  serde's derived Deserialize for      *)
(* McpServerEntry and McpJsonWrapped is spelled out on JSON values: an     *)
(* Option<String> field takes a string, null or its absence; a defaulted   *)
(* Vec<String> or HashMap<String, String> field takes an array or object   *)
(* of strings, or its absence; members the struct does not name are        *)
(* ignored.                                                                *)
(***************************************************************************)
\* a field of type Option<String>
DeserializeOptString(o) ==
    IF ~IsSome(o) \/ o[1].kind = "null" THEN Ok(None)
    ELSE IF o[1].kind = "string" THEN Ok(Some(o[1].str))
    ELSE Err("JsonParse")

\* #[serde(default)] args: Vec<String>
DeserializeArgs(o) ==
    IF ~IsSome(o) THEN Ok(<<>>)
    ELSE IF /\ o[1].kind = "array"
            /\ \A i \in 1..Len(o[1].items) : o[1].items[i].kind = "string"
         THEN Ok([i \in 1..Len(o[1].items) |-> o[1].items[i].str])
    ELSE Err("JsonParse")

\* #[serde(default)] env: HashMap<String, String>
DeserializeEnv(o) ==
    IF ~IsSome(o) THEN Ok(EmptyMap)
    ELSE IF /\ o[1].kind = "object"
            /\ \A i \in 1..Len(o[1].entries) : o[1].entries[i].value.kind = "string"
         THEN Ok([k \in Keys(o[1].entries) |-> Get(o[1].entries, k)[1].str])
    ELSE Err("JsonParse")

\* McpServerEntry, from a JSON value
McpServerEntry(v) ==
    IF v.kind # "object" THEN Err("JsonParse")
    ELSE LET command == DeserializeOptString(Get(v.entries, "command"))
             args == DeserializeArgs(Get(v.entries, "args"))
             env == DeserializeEnv(Get(v.entries, "env"))
             url == DeserializeOptString(Get(v.entries, "url"))
             transport_type == DeserializeOptString(Get(v.entries, "type"))
         IN  IF command.ok /\ args.ok /\ env.ok /\ url.ok /\ transport_type.ok
             THEN Ok([command |-> command.val, args |-> args.val, env |-> env.val,
                      url |-> url.val, transport_type |-> transport_type.val])
             ELSE Err("JsonParse")

\* HashMap<String, McpServerEntry>, from a JSON value
McpServerEntryMap(v) ==
    IF /\ v.kind = "object"
       /\ \A i \in 1..Len(v.entries) : McpServerEntry(v.entries[i].value).ok
    THEN Ok([k \in Keys(v.entries) |-> McpServerEntry(Get(v.entries, k)[1]).val])
    ELSE Err("JsonParse")

\* McpJsonWrapped, from a JSON value: the member mcpServers is required
McpJsonWrapped(v) ==
    IF /\ v.kind = "object"
       /\ IsSome(Get(v.entries, "mcpServers"))
       /\ McpServerEntryMap(Get(v.entries, "mcpServers")[1]).ok
    THEN Ok([mcp_servers |-> McpServerEntryMap(Get(v.entries, "mcpServers")[1]).val])
    ELSE Err("JsonParse")

\* serde_json::from_str of a text, through the reading `shape` of its value
FromStrWrapped(content) ==
    IF content.valid /\ IsSome(content.json) THEN McpJsonWrapped(content.json[1])
    ELSE Err("JsonParse")

FromStrEntryMap(content) ==
    IF content.valid /\ IsSome(content.json) THEN McpServerEntryMap(content.json[1])
    ELSE Err("JsonParse")

convert_env(env) == [k \in DOMAIN env |-> Plain(env[k])]

\* UrlOrCommand, without the command
UrlOnly(entry) == entry.url

\* entry.url.or_else(|| entry.command.clone())
UrlOrCommand(entry) == IF IsSome(entry.url) THEN entry.url ELSE entry.command

\* entry_to_mcp_server, giving a remote server a timeout of its own
entry_to_mcp_server_with_timeout(entry) ==
    LET transport == entry.transport_type
    IN  IF transport = Some("sse")
        THEN IF ~IsSome(UrlOrCommand(entry)) THEN None
             ELSE Some([variant |-> "Sse", url |-> UrlOrCommand(entry)[1],
                        headers |-> EmptyMap, timeout_ms |-> Some(30000), enabled |-> TRUE])
        ELSE IF transport \in {Some("http"), Some("streamable-http")}
        THEN IF ~IsSome(UrlOrCommand(entry)) THEN None
             ELSE Some([variant |-> "Http", url |-> UrlOrCommand(entry)[1],
                        headers |-> EmptyMap, timeout_ms |-> Some(30000), enabled |-> TRUE,
                        oauth |-> None])
        ELSE IF ~IsSome(entry.command) THEN None
             ELSE Some([variant |-> "Stdio", command |-> entry.command[1],
                        args |-> entry.args, env |-> convert_env(entry.env),
                        timeout_ms |-> None, enabled |-> TRUE, cwd |-> None])

\* entry_to_mcp_server: the server of an entry, or None
entry_to_mcp_server(entry) ==
    LET transport == entry.transport_type
    IN  IF transport = Some("sse")
        THEN IF ~IsSome(UrlOrCommand(entry)) THEN None
             ELSE Some([variant |-> "Sse", url |-> UrlOrCommand(entry)[1],
                        headers |-> EmptyMap, timeout_ms |-> None, enabled |-> TRUE])
        ELSE IF transport \in {Some("http"), Some("streamable-http")}
        THEN IF ~IsSome(UrlOrCommand(entry)) THEN None
             ELSE Some([variant |-> "Http", url |-> UrlOrCommand(entry)[1],
                        headers |-> EmptyMap, timeout_ms |-> None, enabled |-> TRUE,
                        oauth |-> None])
        ELSE IF ~IsSome(entry.command) THEN None
             ELSE Some([variant |-> "Stdio", command |-> entry.command[1],
                        args |-> entry.args, env |-> convert_env(entry.env),
                        timeout_ms |-> None, enabled |-> TRUE, cwd |-> None])

\* map.into_iter().filter_map(entry_to_mcp_server).collect()
convert_entries(map) ==
    [name \in {n \in DOMAIN map : IsSome(entry_to_mcp_server(map[n]))} |->
        entry_to_mcp_server(map[name])[1]]

\* parse_mcp_json, trying the flat shape first
parse_mcp_json_flat_first(content) ==
    IF FromStrEntryMap(content).ok
    THEN Ok(convert_entries(FromStrEntryMap(content).val))
    ELSE IF FromStrWrapped(content).ok
    THEN Ok(convert_entries(FromStrWrapped(content).val.mcp_servers))
    ELSE Err("JsonParse")

\* parse_mcp_json, without the flat reading for a text that has mcpServers
parse_mcp_json_wrapper_decides(content) ==
    IF FromStrWrapped(content).ok
    THEN Ok(convert_entries(FromStrWrapped(content).val.mcp_servers))
    ELSE IF /\ FromStrEntryMap(content).ok
            /\ "mcpServers" \notin DOMAIN FromStrEntryMap(content).val
    THEN Ok(convert_entries(FromStrEntryMap(content).val))
    ELSE Err("JsonParse")

parse_mcp_json(content) ==
    IF FromStrWrapped(content).ok
    THEN Ok(convert_entries(FromStrWrapped(content).val.mcp_servers))
    ELSE IF FromStrEntryMap(content).ok
    THEN Ok(convert_entries(FromStrEntryMap(content).val))
    ELSE Err("JsonParse")

(***************************************************************************)
(* component/hook.rs: parse_hooks_json.  serde's derived Deserialize for   *)
(* HookEvent, HookAction (untagged) and HookGroup is spelled out on JSON   *)
(* values: a required field must be present, an Option field takes null   *)
(* or its absence, members the struct does not name are ignored.           *)
(***************************************************************************)
\* #[serde(rename_all = "PascalCase")] enum HookEvent
HookEvents == {"PreToolUse", "PostToolUse", "Notification", "Stop", "SubagentStop"}

\* a field of type Option<u64> or Option<bool>
DeserializeOptOf(o, kind) ==
    IF ~IsSome(o) \/ o[1].kind = "null" THEN Ok(None)
    ELSE IF o[1].kind = kind
         THEN Ok(Some(IF kind = "number" THEN o[1].num ELSE o[1].bool))
    ELSE Err("JsonParse")

\* HookAction: Simple(String), else Extended { command, timeout, background }
HookAction(v) ==
    IF v.kind = "string" THEN Ok([variant |-> "Simple", command |-> v.str,
                                  timeout |-> None, background |-> None])
    ELSE IF v.kind # "object" THEN Err("JsonParse")
    ELSE LET command == Get(v.entries, "command")
             timeout == DeserializeOptOf(Get(v.entries, "timeout"), "number")
             background == DeserializeOptOf(Get(v.entries, "background"), "bool")
         IN  IF /\ IsSome(command) /\ command[1].kind = "string"
                /\ timeout.ok /\ background.ok
             THEN Ok([variant |-> "Extended", command |-> command[1].str,
                      timeout |-> timeout.val, background |-> background.val])
             ELSE Err("JsonParse")

\* HookGroup { matcher: Option<String>, hooks: Vec<HookAction> }
HookGroup(v) ==
    IF v.kind # "object" THEN Err("JsonParse")
    ELSE LET matcher == DeserializeOptString(Get(v.entries, "matcher"))
             hooks == Get(v.entries, "hooks")
         IN  IF /\ matcher.ok
                /\ IsSome(hooks) /\ hooks[1].kind = "array"
                /\ \A i \in 1..Len(hooks[1].items) : HookAction(hooks[1].items[i]).ok
             THEN Ok([matcher |-> matcher.val,
                      hooks |-> [i \in 1..Len(hooks[1].items) |->
                                    HookAction(hooks[1].items[i]).val]])
             ELSE Err("JsonParse")

\* Vec<HookGroup>
HookGroups(v) ==
    IF /\ v.kind = "array"
       /\ \A i \in 1..Len(v.items) : HookGroup(v.items[i]).ok
    THEN Ok([i \in 1..Len(v.items) |-> HookGroup(v.items[i]).val])
    ELSE Err("JsonParse")

\* HooksConfig, keeping the events and groups that deserialize
HooksConfigOfWhatParses(v) ==
    IF v.kind # "object" THEN Err("JsonParse")
    ELSE Ok([event \in {k \in Keys(v.entries) \cap HookEvents :
                            HookGroups(Get(v.entries, k)[1]).ok} |->
                HookGroups(Get(v.entries, event)[1]).val])

\* HooksConfig = HashMap<HookEvent, Vec<HookGroup>>
HooksConfig(v) ==
    IF /\ v.kind = "object"
       /\ Keys(v.entries) \subseteq HookEvents
       /\ \A i \in 1..Len(v.entries) : HookGroups(v.entries[i].value).ok
    THEN Ok([event \in Keys(v.entries) |-> HookGroups(Get(v.entries, event)[1]).val])
    ELSE Err("JsonParse")

\* serde_json::from_str(content).map_err(Error::JsonParse)
parse_hooks_json(content) ==
    IF content.valid /\ IsSome(content.json) THEN HooksConfig(content.json[1])
    ELSE Err("JsonParse")

(***************************************************************************)
(* discovery.rs: helpers                                                   *)
(***************************************************************************)
find_marketplace_json(archive) ==
    LET candidates == list_files(archive, "marketplace.json")
    IN  IF ~candidates.ok THEN candidates
        ELSE LET hits == SelectSeq(candidates.val,
                             LAMBDA path : Contains(path, ".claude-plugin/marketplace.json"))
             IN  IF hits # <<>> THEN Ok(hits[1])
                 ELSE Err("NotFound")

extract_archive_prefix(archive) ==
    LET files == list_files(archive, "")
    IN  IF ~files.ok THEN files
        ELSE IF files.val # <<>> /\ IsSome(FindSlash(files.val[1]))
             THEN Ok(SubSeq(files.val[1], 1, FindSlash(files.val[1])[1]))
             ELSE Ok("")

extract_source_path(source) ==
    CASE source.tag = "Relative" -> source.text
      [] source.tag = "GitHub" -> source.text
      [] source.tag = "Url" -> source.text

\* resolve_plugin_path, stripping every leading "./"
RECURSIVE resolve_plugin_path_stripping_all(_)
resolve_plugin_path_stripping_all(source) ==
    IF StartsWith(source, "./")
    THEN resolve_plugin_path_stripping_all(StripPrefix(source, "./")[1])
    ELSE source

resolve_plugin_path(source) ==
    LET rest == StripPrefix(source, "./")
    IN  IF IsSome(rest) THEN rest[1] ELSE source

\* extract_plugins_dir_path, taking the top directory of any repository
extract_plugins_dir_path_any_prefix(file_path, pre) ==
    LET top == FindSlash(file_path)
        relative == IF IsSome(top) THEN SubSeq(file_path, top[1] + 1, Len(file_path))
                    ELSE file_path
    IN  IF StartsWith(relative, "plugins/")
        THEN Some("plugins/" \o FirstSegment(StripPrefix(relative, "plugins/")[1]))
        ELSE None

extract_plugins_dir_path(file_path, pre) ==
    LET relative == StripPrefix(file_path, pre)
    IN  IF ~IsSome(relative) THEN None
        ELSE IF StartsWith(relative[1], "plugins/")
             THEN LET after_plugins == StripPrefix(relative[1], "plugins/")[1]
                      plugin_name == FirstSegment(after_plugins)
                  IN  Some("plugins/" \o plugin_name)
             ELSE None

ComponentDirs == <<"skills/", "commands/", "agents/">>

\* the number of component directories some entry lies under
ComponentDirCount(archive, pre) ==
    LET files == list_files(archive, "")
    IN  Cardinality({d \in 1..Len(ComponentDirs) :
            /\ files.ok
            /\ \E i \in 1..Len(files.val) : StartsWith(files.val[i], pre \o ComponentDirs[d])})

\* has_component_dirs, content with a single component directory
has_any_component_dir(archive, pre) == ComponentDirCount(archive, pre) >= 1

has_component_dirs(archive, pre) == ComponentDirCount(archive, pre) >= 2

file_exists(archive, path) == extract_file(archive, path).ok

(***************************************************************************)
(* discovery.rs: detect_plugins.  A detection state is the pair of         *)
(* `detected` and `seen_paths`; each tier maps one to the next.            *)
(***************************************************************************)
\* Register, pushing without consulting seen_paths
RegisterUnseen(st, path, method) ==
    [detected |-> Append(st.detected, [path |-> path, method |-> method]),
     seen |-> st.seen \cup {path}]

\* if seen_paths.insert(path) { detected.push(DetectedPlugin { path, method }) }
Register(st, path, method) ==
    IF path \notin st.seen
    THEN [detected |-> Append(st.detected, [path |-> path, method |-> method]),
          seen |-> st.seen \cup {path}]
    ELSE st

RECURSIVE RegisterEach(_, _, _)
RegisterEach(st, paths, method) ==
    IF paths = <<>> THEN st
    ELSE RegisterEach(Register(st, Head(paths), method), Tail(paths), method)

\* Priority 1: marketplace.json
MarketplaceTier(archive, st) ==
    LET marketplace_path == find_marketplace_json(archive)
        content == extract_file(archive, marketplace_path.val)
        marketplace == ParseMarketplace(content.val)
    IN  IF marketplace_path.ok /\ content.ok /\ marketplace.ok
        THEN LET entries == marketplace.val.plugins
                 paths == [i \in 1..Len(entries) |->
                              resolve_plugin_path(extract_source_path(entries[i]))]
             IN  RegisterEach(st, paths, "Marketplace")
        ELSE st

\* RootManifestTier, registering the empty path even when it was seen
RootManifestTierUnchecked(archive, pre, st) ==
    IF file_exists(archive, pre \o ".claude-plugin/plugin.json")
    THEN [detected |-> Append(st.detected, [path |-> "", method |-> "PluginJson"]),
          seen |-> st.seen \cup {""}]
    ELSE st

\* Priority 2: root .claude-plugin/plugin.json
RootManifestTier(archive, pre, st) ==
    LET root_plugin_json == pre \o ".claude-plugin/plugin.json"
    IN  IF file_exists(archive, root_plugin_json) THEN Register(st, "", "PluginJson") ELSE st

\* Priority 3: plugins/*/.claude-plugin/plugin.json
PluginsDirTier(archive, pre, st) ==
    LET files == list_files(archive, "plugin.json")
    IN  IF files.ok
        THEN LET found == [i \in 1..Len(files.val) |->
                              extract_plugins_dir_path(files.val[i], pre)]
                 hits == SelectSeq(found, IsSome)
             IN  RegisterEach(st, [i \in 1..Len(hits) |-> hits[i][1]], "PluginsDir")
        ELSE st

\* HeuristicTier, without regard to what the earlier tiers registered
HeuristicTierBesideCandidates(archive, pre, st) ==
    IF has_component_dirs(archive, pre)
    THEN [detected |-> Append(st.detected, [path |-> "", method |-> "ComponentHeuristic"]),
          seen |-> st.seen]
    ELSE st

\* Priority 4: component heuristic (2+ of skills/, commands/, agents/)
HeuristicTier(archive, pre, st) ==
    IF st.detected = <<>> /\ has_component_dirs(archive, pre)
    THEN [detected |-> Append(st.detected, [path |-> "", method |-> "ComponentHeuristic"]),
          seen |-> st.seen]
    ELSE st

NoneDetected == [detected |-> <<>>, seen |-> {}]

detect_plugins(archive, pre) ==
    HeuristicTier(archive, pre,
        PluginsDirTier(archive, pre,
            RootManifestTier(archive, pre,
                MarketplaceTier(archive, NoneDetected)))).detected

(***************************************************************************)
(* discovery.rs: assembling one plugin                                     *)
(***************************************************************************)
\* the descriptors of the entries under plugin_prefix + subdir that end in
\* suffix and that parser accepts, in listing order
ParseComponent(kind, content) ==
    CASE kind = "skill" -> parse_skill_descriptor(content)
      [] kind = "command" -> parse_command_descriptor(content, "command")
      [] kind = "agent" -> parse_agent_descriptor(content)

\* scan_components, giving nothing once a file cannot be read or parsed
scan_components_all_or_nothing(archive, plugin_prefix, subdir, suffix, kind) ==
    LET dir_prefix == plugin_prefix \o subdir
        files == list_files(archive, suffix)
    IN  IF ~files.ok THEN <<>>
        ELSE LET under == SelectSeq(files.val, LAMBDA path : StartsWith(path, dir_prefix))
                 parsed == [i \in 1..Len(under) |->
                     LET content == extract_file(archive, under[i])
                     IN  IF content.ok /\ ParseComponent(kind, content.val).ok
                         THEN Some(ParseComponent(kind, content.val).val) ELSE None]
             IN  IF \E i \in 1..Len(parsed) : ~IsSome(parsed[i]) THEN <<>>
                 ELSE [i \in 1..Len(parsed) |-> parsed[i][1]]

scan_components(archive, plugin_prefix, subdir, suffix, kind) ==
    LET dir_prefix == plugin_prefix \o subdir
        files == list_files(archive, suffix)
    IN  IF ~files.ok THEN <<>>
        ELSE LET under == SelectSeq(files.val, LAMBDA path : StartsWith(path, dir_prefix))
                 parsed == [i \in 1..Len(under) |->
                     LET content == extract_file(archive, under[i])
                     IN  IF content.ok /\ ParseComponent(kind, content.val).ok
                         THEN Some(ParseComponent(kind, content.val).val) ELSE None]
                 kept == SelectSeq(parsed, IsSome)
             IN  [i \in 1..Len(kept) |-> kept[i][1]]

ScanSkills(archive, base) ==
    scan_components(archive, base, "skills/", "SKILL.md", "skill")

ScanCommands(archive, base) ==
    scan_components(archive, base, "commands/", ".md", "command")

ScanAgents(archive, base) ==
    scan_components(archive, base, "agents/", ".md", "agent")

\* extract_file(..).ok().and_then(|c| parse_mcp_json(&c).ok()).unwrap_or_default()
ReadMcpServers(archive, base) ==
    LET content == extract_file(archive, base \o ".claude-plugin/.mcp.json")
    IN  IF content.ok /\ parse_mcp_json(content.val).ok
        THEN parse_mcp_json(content.val).val ELSE EmptyMap

\* extract_file(..).ok().and_then(|c| parse_hooks_json(&c).ok())
ReadHooks(archive, base) ==
    LET content == extract_file(archive, base \o ".claude-plugin/hooks.json")
    IN  IF content.ok /\ parse_hooks_json(content.val).ok
        THEN Some(parse_hooks_json(content.val).val) ELSE None

\* the base path of a plugin, avoiding a double slash for the empty path
BasePath(pre, plugin_path) ==
    IF plugin_path = "" THEN pre ELSE pre \o plugin_path \o "/"

\* discover_single_plugin, propagating the error of a hooks.json that does not parse
discover_single_plugin_strict_hooks(archive, pre, plugin_path) ==
    LET base == BasePath(pre, plugin_path)
        first == extract_file(archive, base \o ".claude-plugin/plugin.json")
        plugin_content == IF first.ok THEN first
                          ELSE extract_file(archive, base \o "plugin.json")
        plugin_json == ParsePluginJson(plugin_content.val)
        hooks_content == extract_file(archive, base \o ".claude-plugin/hooks.json")
    IN  IF ~plugin_content.ok THEN plugin_content
        ELSE IF ~plugin_json.ok THEN plugin_json
        ELSE IF hooks_content.ok /\ ~parse_hooks_json(hooks_content.val).ok
             THEN parse_hooks_json(hooks_content.val)
        ELSE Ok([name |-> plugin_json.val.name,
                 path |-> IF plugin_path = "" THEN None ELSE Some(plugin_path),
                 description |-> plugin_json.val.description,
                 skills |-> ScanSkills(archive, base),
                 commands |-> ScanCommands(archive, base),
                 agents |-> ScanAgents(archive, base),
                 hooks |-> ReadHooks(archive, base),
                 mcp_servers |-> ReadMcpServers(archive, base)])

\* discover_single_plugin, reading <base>plugin.json also when the first
\* manifest does not parse
discover_single_plugin_second_chance(archive, pre, plugin_path) ==
    LET base == BasePath(pre, plugin_path)
        first == extract_file(archive, base \o ".claude-plugin/plugin.json")
        plugin_content == IF first.ok /\ ParsePluginJson(first.val).ok THEN first
                          ELSE extract_file(archive, base \o "plugin.json")
        plugin_json == ParsePluginJson(plugin_content.val)
    IN  IF ~plugin_content.ok THEN plugin_content
        ELSE IF ~plugin_json.ok THEN plugin_json
        ELSE Ok([name |-> plugin_json.val.name,
                 path |-> IF plugin_path = "" THEN None ELSE Some(plugin_path),
                 description |-> plugin_json.val.description,
                 skills |-> ScanSkills(archive, base),
                 commands |-> ScanCommands(archive, base),
                 agents |-> ScanAgents(archive, base),
                 hooks |-> ReadHooks(archive, base),
                 mcp_servers |-> ReadMcpServers(archive, base)])

discover_single_plugin(archive, pre, plugin_path) ==
    LET base == BasePath(pre, plugin_path)
        first == extract_file(archive, base \o ".claude-plugin/plugin.json")
        plugin_content == IF first.ok THEN first
                          ELSE extract_file(archive, base \o "plugin.json")
        plugin_json == ParsePluginJson(plugin_content.val)
    IN  IF ~plugin_content.ok THEN plugin_content
        ELSE IF ~plugin_json.ok THEN plugin_json
        ELSE Ok([name |-> plugin_json.val.name,
                 path |-> IF plugin_path = "" THEN None ELSE Some(plugin_path),
                 description |-> plugin_json.val.description,
                 skills |-> ScanSkills(archive, base),
                 commands |-> ScanCommands(archive, base),
                 agents |-> ScanAgents(archive, base),
                 hooks |-> ReadHooks(archive, base),
                 mcp_servers |-> ReadMcpServers(archive, base)])

discover_synthetic_plugin(archive, pre, plugin_path, name) ==
    LET base == BasePath(pre, plugin_path)
    IN  [name |-> name,
         path |-> IF plugin_path = "" THEN None ELSE Some(plugin_path),
         description |-> None,
         skills |-> ScanSkills(archive, base),
         commands |-> ScanCommands(archive, base),
         agents |-> ScanAgents(archive, base),
         hooks |-> None,
         mcp_servers |-> ReadMcpServers(archive, base)]

\* derive_plugin_name, without the repository name for the empty path
derive_name_from_path_only(path, ref) == LastSegment(path)

derive_plugin_name(path, ref) ==
    IF path = "" THEN ref.repo ELSE LastSegment(path)

(***************************************************************************)
(* types.rs: DiscoveryResult::from_plugins                                 *)
(***************************************************************************)
\* FlatMap, walking the plugins from the last to the first
RECURSIVE FlatMapBackwards(_)
FlatMapBackwards(seqs) ==
    IF seqs = <<>> THEN <<>> ELSE FlatMapBackwards(Tail(seqs)) \o Head(seqs)

\* iter().flat_map(..).collect() into a Vec: the sequences one after another
RECURSIVE FlatMap(_)
FlatMap(seqs) == IF seqs = <<>> THEN <<>> ELSE Head(seqs) \o FlatMap(Tail(seqs))

\* CollectMap, keeping the value a key was first met with
RECURSIVE CollectMapFirstWins(_)
CollectMapFirstWins(maps) ==
    IF maps = <<>> THEN EmptyMap
    ELSE CollectMapFirstWins(SubSeq(maps, 1, Len(maps) - 1)) @@ maps[Len(maps)]

\* iter().flat_map(..).collect() into a HashMap: every pair is inserted in
\* turn, so a key met again takes the later value
RECURSIVE CollectMap(_)
CollectMap(maps) ==
    IF maps = <<>> THEN EmptyMap
    ELSE maps[Len(maps)] @@ CollectMap(SubSeq(maps, 1, Len(maps) - 1))

from_plugins(ps) ==
    [plugins |-> ps,
     all_skills |-> FlatMap([i \in 1..Len(ps) |-> ps[i].skills]),
     all_commands |-> FlatMap([i \in 1..Len(ps) |-> ps[i].commands]),
     all_agents |-> FlatMap([i \in 1..Len(ps) |-> ps[i].agents]),
     all_mcp_servers |-> CollectMap([i \in 1..Len(ps) |-> ps[i].mcp_servers])]

(***************************************************************************)
(* droid.rs: parse_mcp_server.  The server object is the record of its     *)
(* members `type`, `url`, `command`, `args`, `env`, `headers`, `disabled`  *)
(* and `timeout`, each None when the key is absent; `object` is FALSE for  *)
(* a JSON value that is no object.                                         *)
(***************************************************************************)
Unsupported(reason) ==
    Err([kind |-> "UnsupportedMcpConfig", harness |-> "Droid", reason |-> reason])

\* ParseValueMap, leaving out the members that are no strings
RECURSIVE ParseValueMapSkipping(_, _, _)
ParseValueMapSkipping(entries, what, acc) ==
    IF entries = <<>> THEN Ok(acc)
    ELSE LET value_str == as_str(Head(entries).value)
         IN  IF ~IsSome(value_str)
             THEN ParseValueMapSkipping(Tail(entries), what, acc)
             ELSE ParseValueMapSkipping(Tail(entries), what,
                      (Head(entries).key :> from_native(value_str[1])) @@ acc)

\* the loop over the members of `headers` or `env`: the map of parsed values,
\* or the error for the first member that is no string
RECURSIVE ParseValueMap(_, _, _)
ParseValueMap(entries, what, acc) ==
    IF entries = <<>> THEN Ok(acc)
    ELSE LET value_str == as_str(Head(entries).value)
         IN  IF ~IsSome(value_str)
             THEN Unsupported(what \o " '" \o Head(entries).key \o "' must be a string")
             ELSE ParseValueMap(Tail(entries), what,
                      (Head(entries).key :> from_native(value_str[1])) @@ acc)

ParseHeaders(obj) ==
    IF IsSome(obj.headers)
    THEN LET headers_obj == as_object(obj.headers[1])
         IN  IF ~IsSome(headers_obj) THEN Unsupported("'headers' must be an object")
             ELSE ParseValueMap(headers_obj[1], "Header", EmptyMap)
    ELSE Ok(EmptyMap)

ParseEnv(obj) ==
    IF IsSome(obj.env)
    THEN LET env_obj == as_object(obj.env[1])
         IN  IF ~IsSome(env_obj) THEN Unsupported("'env' must be an object")
             ELSE ParseValueMap(env_obj[1], "Environment variable", EmptyMap)
    ELSE Ok(EmptyMap)

\* arr.iter().enumerate().map(..).collect::<Result<Vec<_>>>()
RECURSIVE ParseArgItems(_, _, _)
ParseArgItems(arr, i, acc) ==
    IF i > Len(arr) THEN Ok(acc)
    ELSE IF ~IsSome(as_str(arr[i]))
         THEN Unsupported("args[" \o ToString(i - 1) \o "] must be a string")
         ELSE ParseArgItems(arr, i + 1, Append(acc, as_str(arr[i])[1]))

ParseArgs(obj) ==
    IF IsSome(obj.args)
    THEN LET arr == as_array(obj.args[1])
         IN  IF ~IsSome(arr) THEN Unsupported("'args' must be an array")
             ELSE ParseArgItems(arr[1], 1, <<>>)
    ELSE Ok(<<>>)

\* Enabled without the inversion
EnabledAsDisabled(obj) ==
    LET disabled == GetBool(obj.disabled)
    IN  IF IsSome(disabled) THEN disabled[1] ELSE TRUE

\* obj.get("disabled").and_then(|v| v.as_bool()).map(|d| !d).unwrap_or(true)
Enabled(obj) ==
    LET disabled == GetBool(obj.disabled)
    IN  IF IsSome(disabled) THEN ~disabled[1] ELSE TRUE

\* obj.get("timeout").and_then(|v| v.as_u64())
TimeoutMs(obj) == GetU64(obj.timeout)

parse_stdio_server(obj) ==
    LET command == GetStr(obj.command)
        args == ParseArgs(obj)
        env == ParseEnv(obj)
    IN  IF ~IsSome(command) THEN Unsupported("Stdio server missing 'command' field")
        ELSE IF ~args.ok THEN args
        ELSE IF ~env.ok THEN env
        ELSE Ok([variant |-> "Stdio", command |-> command[1], args |-> args.val,
                 env |-> env.val, cwd |-> None, enabled |-> Enabled(obj),
                 timeout_ms |-> TimeoutMs(obj)])

\* the arm for "http"
ParseHttpServer(obj) ==
    LET url == GetStr(obj.url)
        headers == ParseHeaders(obj)
    IN  IF ~IsSome(url) THEN Unsupported("HTTP server missing 'url' field")
        ELSE IF ~headers.ok THEN headers
        ELSE Ok([variant |-> "Http", url |-> url[1], headers |-> headers.val,
                 oauth |-> None, enabled |-> Enabled(obj), timeout_ms |-> TimeoutMs(obj)])

\* the branch for an object with a `url` key and no string `type`
ParseSseServer(obj) ==
    LET url == GetStr(obj.url)
        headers == ParseHeaders(obj)
    IN  IF ~IsSome(url) THEN Unsupported("Server missing 'url' field")
        ELSE IF ~headers.ok THEN headers
        ELSE Ok([variant |-> "Sse", url |-> url[1], headers |-> headers.val,
                 enabled |-> Enabled(obj), timeout_ms |-> TimeoutMs(obj)])

\* parse_mcp_server, taking the url branch only for an object without `command`
parse_mcp_server_url_yields_to_command(value) ==
    IF ~value.object THEN Unsupported("Server configuration must be an object")
    ELSE LET server_type == GetStr(value.type)
         IN  IF IsSome(server_type)
             THEN CASE server_type[1] = "http" -> ParseHttpServer(value)
                    [] server_type[1] = "stdio" -> parse_stdio_server(value)
                    [] OTHER -> Unsupported("Unknown server type: " \o server_type[1])
             ELSE IF IsSome(value.url) /\ ~IsSome(value.command) THEN ParseSseServer(value)
             ELSE parse_stdio_server(value)

parse_mcp_server(value) ==
    IF ~value.object THEN Unsupported("Server configuration must be an object")
    ELSE LET server_type == GetStr(value.type)
         IN  IF IsSome(server_type)
             THEN CASE server_type[1] = "http" -> ParseHttpServer(value)
                    [] server_type[1] = "stdio" -> parse_stdio_server(value)
                    [] OTHER -> Unsupported("Unknown server type: " \o server_type[1])
             ELSE IF IsSome(value.url) THEN ParseSseServer(value)
             ELSE parse_stdio_server(value)

\* a JSON value that is no object
NotAnObject == [object |-> FALSE, type |-> None, url |-> None, command |-> None,
                args |-> None, env |-> None, headers |-> None, disabled |-> None,
                timeout |-> None]

(***************************************************************************)
(* The repository reference (crate::github) and the fetch (crate::fetch)   *)
(***************************************************************************)
RepoUrls == {"https://github.com/owner/my-repo", "not-a-repository"}

\* GitHubRef::parse: a GitHub URL or the owner/repo shorthand
GitHubRefParse(url) ==
    LET body == IF StartsWith(url, "https://github.com/")
                THEN StripPrefix(url, "https://github.com/")[1] ELSE url
        slash == FindSlash(body)
    IN  IF IsSome(slash) /\ slash[1] > 1 /\ slash[1] < Len(body)
        THEN Ok([owner |-> SubSeq(body, 1, slash[1] - 1),
                 repo |-> SubSeq(body, slash[1] + 1, Len(body))])
        ELSE Err("InvalidRef")

\* what fetch_bytes may answer: the bytes of some archive, or a transport failure
FetchAnswers == {Ok(a) : a \in Archives} \cup {Err("Network")}

(***************************************************************************)
(* discovery.rs: discover_all, one action per step                         *)
(***************************************************************************)
NoArchive == [corrupt |-> FALSE, files |-> <<>>]

DiscoverInit ==
    /\ pc = "start"
    /\ repo_url \in RepoUrls
    /\ github_ref = None
    /\ archive_bytes = NoArchive
    /\ prefix = ""
    /\ detected = <<>>
    /\ seen_paths = {}
    /\ next_det = 1
    /\ plugins = <<>>
    /\ outcome = None
    /\ fetches = 0
    /\ market_plugins = None

\* let github_ref = GitHubRef::parse(repo_url)?;
ParseRef ==
    /\ pc = "start"
    /\ LET parsed == GitHubRefParse(repo_url)
       IN  IF parsed.ok
           THEN /\ github_ref' = Some(parsed.val)
                /\ pc' = "fetch"
                /\ outcome' = outcome
           ELSE /\ github_ref' = github_ref
                /\ pc' = "failed"
                /\ outcome' = Some(Err(parsed.err))
    /\ UNCHANGED <<repo_url, archive_bytes, prefix, detected, seen_paths, next_det,
                   plugins, fetches>>
    /\ UNCHANGED <<market_plugins, flatVars, droidVars, parserVars>>

\* Fetch, asking once more after a transport failure
FetchWithRetry ==
    /\ pc = "fetch"
    /\ fetches' = fetches + 1
    /\ \E answer \in FetchAnswers :
           IF answer.ok
           THEN /\ archive_bytes' = answer.val
                /\ pc' = "prefix"
                /\ outcome' = outcome
           ELSE /\ archive_bytes' = archive_bytes
                /\ pc' = IF fetches < 1 THEN "fetch" ELSE "failed"
                /\ outcome' = IF fetches < 1 THEN outcome ELSE Some(Err(answer.err))
    /\ UNCHANGED <<repo_url, github_ref, prefix, detected, seen_paths, next_det, plugins>>
    /\ UNCHANGED <<market_plugins, flatVars, droidVars, parserVars>>

\* let archive_bytes = fetch_bytes(&archive_url)?;
Fetch ==
    /\ pc = "fetch"
    /\ fetches' = fetches + 1
    /\ \E answer \in FetchAnswers :
           IF answer.ok
           THEN /\ archive_bytes' = answer.val
                /\ pc' = "prefix"
                /\ outcome' = outcome
           ELSE /\ archive_bytes' = archive_bytes
                /\ pc' = "failed"
                /\ outcome' = Some(Err(answer.err))
    /\ UNCHANGED <<repo_url, github_ref, prefix, detected, seen_paths, next_det, plugins>>
    /\ UNCHANGED <<market_plugins, flatVars, droidVars, parserVars>>

\* let prefix = extract_archive_prefix(&archive_bytes)?;
ComputePrefix ==
    /\ pc = "prefix"
    /\ LET p == extract_archive_prefix(archive_bytes)
       IN  IF p.ok
           THEN /\ prefix' = p.val
                /\ pc' = "tier1"
                /\ outcome' = outcome
           ELSE /\ prefix' = prefix
                /\ pc' = "failed"
                /\ outcome' = Some(Err(p.err))
    /\ UNCHANGED <<repo_url, github_ref, archive_bytes, detected, seen_paths, next_det,
                   plugins, fetches>>
    /\ UNCHANGED <<market_plugins, flatVars, droidVars, parserVars>>

DetectionState == [detected |-> detected, seen |-> seen_paths]

\* one tier of detect_plugins
DetectStep(at, st, then) ==
    /\ pc = at
    /\ detected' = st.detected
    /\ seen_paths' = st.seen
    /\ pc' = then
    /\ UNCHANGED <<repo_url, github_ref, archive_bytes, prefix, next_det, plugins,
                   outcome, fetches>>
    /\ UNCHANGED <<market_plugins, flatVars, droidVars, parserVars>>

DetectMarketplace ==
    DetectStep("tier1", MarketplaceTier(archive_bytes, DetectionState), "tier2")

DetectRootManifest ==
    DetectStep("tier2", RootManifestTier(archive_bytes, prefix, DetectionState), "tier3")

DetectPluginsDir ==
    DetectStep("tier3", PluginsDirTier(archive_bytes, prefix, DetectionState), "tier4")

DetectHeuristic ==
    DetectStep("tier4", HeuristicTier(archive_bytes, prefix, DetectionState), "assemble")

\* AssembleOne, keeping a candidate whose manifest-based assembly failed
AssembleOneKeepingFailures(archive, pre, ref, det, ps) ==
    LET derived_name == derive_plugin_name(det.path, ref)
        single == discover_single_plugin(archive, pre, det.path)
    IN  IF det.method # "ComponentHeuristic" /\ single.ok
        THEN Append(ps, IF single.val.name = ""
                        THEN [single.val EXCEPT !.name = derived_name]
                        ELSE single.val)
        ELSE Append(ps, discover_synthetic_plugin(archive, pre, det.path, derived_name))

\* one turn of `for det in detected`: what the turn leaves in `plugins`
AssembleOne(archive, pre, ref, det, ps) ==
    LET derived_name == derive_plugin_name(det.path, ref)
    IN  IF det.method = "ComponentHeuristic"
        THEN Append(ps, discover_synthetic_plugin(archive, pre, det.path, derived_name))
        ELSE LET single == discover_single_plugin(archive, pre, det.path)
             IN  IF single.ok
                 THEN Append(ps, IF single.val.name = ""
                                 THEN [single.val EXCEPT !.name = derived_name]
                                 ELSE single.val)
                 ELSE ps

Assemble ==
    /\ pc = "assemble"
    /\ next_det <= Len(detected)
    /\ plugins' = AssembleOne(archive_bytes, prefix, github_ref[1], detected[next_det], plugins)
    /\ next_det' = next_det + 1
    /\ UNCHANGED <<pc, repo_url, github_ref, archive_bytes, prefix, detected, seen_paths,
                   outcome, fetches>>
    /\ UNCHANGED <<market_plugins, flatVars, droidVars, parserVars>>

\* Ok(DiscoveryResult::from_plugins(plugins))
Aggregate ==
    /\ pc = "assemble"
    /\ next_det > Len(detected)
    /\ outcome' = Some(Ok(from_plugins(plugins)))
    /\ pc' = "done"
    /\ UNCHANGED <<repo_url, github_ref, archive_bytes, prefix, detected, seen_paths,
                   next_det, plugins, fetches>>
    /\ UNCHANGED <<market_plugins, flatVars, droidVars, parserVars>>

\* the variables of the operations a specification does not run
DiscoverIdle ==
    /\ pc = "idle"
    /\ repo_url = ""
    /\ github_ref = None
    /\ archive_bytes = NoArchive
    /\ prefix = ""
    /\ detected = <<>>
    /\ seen_paths = {}
    /\ next_det = 1
    /\ plugins = <<>>
    /\ outcome = None
    /\ fetches = 0
    /\ market_plugins = None

FlattenIdle == flat_in = <<>> /\ flat_out = <<>>

DroidIdle == droid_in = NotAnObject /\ droid_out = None

McpIdle == mcp_in = Garbage /\ mcp_out = None

HooksIdle == hooks_in = Garbage /\ hooks_out = None

EnvIdle == env_in = "" /\ env_out = None

ParsersIdle == McpIdle /\ HooksIdle /\ EnvIdle

Init == DiscoverInit /\ FlattenIdle /\ DroidIdle /\ ParsersIdle

Next ==
    \/ ParseRef
    \/ Fetch
    \/ ComputePrefix
    \/ DetectMarketplace
    \/ DetectRootManifest
    \/ DetectPluginsDir
    \/ DetectHeuristic
    \/ Assemble
    \/ Aggregate

Spec == Init /\ [][Next]_vars

(***************************************************************************)
(* discovery.rs: discover_plugins, one action per step, and the two entry  *)
(* points side by side                                                     *)
(***************************************************************************)
\* let github_ref = GitHubRef::parse(repo_url)?;
PluginsParseRef ==
    /\ pc = "plugins_start"
    /\ LET parsed == GitHubRefParse(repo_url)
       IN  IF parsed.ok
           THEN /\ github_ref' = Some(parsed.val)
                /\ pc' = "plugins_fetch"
                /\ outcome' = outcome
           ELSE /\ github_ref' = github_ref
                /\ pc' = "plugins_failed"
                /\ outcome' = Some(Err(parsed.err))
    /\ UNCHANGED <<repo_url, archive_bytes, prefix, detected, seen_paths, next_det,
                   plugins, fetches>>
    /\ UNCHANGED <<market_plugins, flatVars, droidVars, parserVars>>

\* let archive_bytes = fetch_bytes(&archive_url)?;
PluginsFetch ==
    /\ pc = "plugins_fetch"
    /\ fetches' = fetches + 1
    /\ \E answer \in FetchAnswers :
           IF answer.ok
           THEN /\ archive_bytes' = answer.val
                /\ pc' = "plugins_marketplace"
                /\ outcome' = outcome
           ELSE /\ archive_bytes' = archive_bytes
                /\ pc' = "plugins_failed"
                /\ outcome' = Some(Err(answer.err))
    /\ UNCHANGED <<repo_url, github_ref, prefix, detected, seen_paths, next_det, plugins>>
    /\ UNCHANGED <<market_plugins, flatVars, droidVars, parserVars>>

\* let marketplace_path = find_marketplace_json(&archive_bytes)?;
\* let marketplace_content = extract_file(&archive_bytes, &marketplace_path)?;
\* let marketplace: Marketplace = serde_json::from_str(&marketplace_content)?;
PluginsReadMarketplace ==
    /\ pc = "plugins_marketplace"
    /\ LET marketplace_path == find_marketplace_json(archive_bytes)
           marketplace_content == extract_file(archive_bytes, marketplace_path.val)
           parsed == ParseMarketplace(marketplace_content.val)
           failure == IF ~marketplace_path.ok THEN marketplace_path
                      ELSE IF ~marketplace_content.ok THEN marketplace_content
                      ELSE parsed
       IN  IF failure.ok
           THEN /\ market_plugins' = Some(parsed.val.plugins)
                /\ pc' = "plugins_prefix"
                /\ outcome' = outcome
           ELSE /\ market_plugins' = market_plugins
                /\ pc' = "plugins_failed"
                /\ outcome' = Some(Err(failure.err))
    /\ UNCHANGED <<repo_url, github_ref, archive_bytes, prefix, detected, seen_paths,
                   next_det, plugins, fetches>>
    /\ UNCHANGED <<flatVars, droidVars, parserVars>>

\* let prefix = extract_archive_prefix(&archive_bytes)?;
PluginsComputePrefix ==
    /\ pc = "plugins_prefix"
    /\ LET p == extract_archive_prefix(archive_bytes)
       IN  IF p.ok
           THEN /\ prefix' = p.val
                /\ pc' = "plugins_assemble"
                /\ outcome' = outcome
           ELSE /\ prefix' = prefix
                /\ pc' = "plugins_failed"
                /\ outcome' = Some(Err(p.err))
    /\ UNCHANGED <<repo_url, github_ref, archive_bytes, detected, seen_paths, next_det,
                   plugins, fetches>>
    /\ UNCHANGED <<market_plugins, flatVars, droidVars, parserVars>>

\* one turn of `for entry in marketplace.plugins`
PluginsAssemble ==
    /\ pc = "plugins_assemble"
    /\ next_det <= Len(market_plugins[1])
    /\ LET source_str == extract_source_path(market_plugins[1][next_det])
           plugin_path == resolve_plugin_path(source_str)
           plugin == discover_single_plugin(archive_bytes, prefix, plugin_path)
       IN  plugins' = IF plugin.ok THEN Append(plugins, plugin.val) ELSE plugins
    /\ next_det' = next_det + 1
    /\ UNCHANGED <<pc, repo_url, github_ref, archive_bytes, prefix, detected, seen_paths,
                   outcome, fetches>>
    /\ UNCHANGED <<market_plugins, flatVars, droidVars, parserVars>>

\* Ok(plugins)
PluginsReturn ==
    /\ pc = "plugins_assemble"
    /\ next_det > Len(market_plugins[1])
    /\ outcome' = Some(Ok(plugins))
    /\ pc' = "plugins_done"
    /\ UNCHANGED <<repo_url, github_ref, archive_bytes, prefix, detected, seen_paths,
                   next_det, plugins, fetches>>
    /\ UNCHANGED <<market_plugins, flatVars, droidVars, parserVars>>

\* a call of discover_all or of discover_plugins
EntryPointsInit ==
    /\ pc \in {"start", "plugins_start"}
    /\ repo_url \in RepoUrls
    /\ github_ref = None
    /\ archive_bytes = NoArchive
    /\ prefix = ""
    /\ detected = <<>>
    /\ seen_paths = {}
    /\ next_det = 1
    /\ plugins = <<>>
    /\ outcome = None
    /\ fetches = 0
    /\ market_plugins = None
    /\ FlattenIdle
    /\ DroidIdle
    /\ ParsersIdle

EntryPointsNext ==
    \/ ParseRef
    \/ Fetch
    \/ ComputePrefix
    \/ DetectMarketplace
    \/ DetectRootManifest
    \/ DetectPluginsDir
    \/ DetectHeuristic
    \/ Assemble
    \/ Aggregate
    \/ PluginsParseRef
    \/ PluginsFetch
    \/ PluginsReadMarketplace
    \/ PluginsComputePrefix
    \/ PluginsAssemble
    \/ PluginsReturn

SpecEntryPoints == EntryPointsInit /\ [][EntryPointsNext]_vars

(***************************************************************************)
(* discover_all on archives that hold plugin trees: manifests, hooks.json  *)
(* files and component files, some of them malformed or unreadable         *)
(***************************************************************************)
LintGroup == JObj(<<Member("hooks", JArr(<<JStr("lint")>>))>>)

TreeSlots == <<
    [path |-> "repo-main/.claude-plugin/plugin.json",
     docs |-> {ManifestDoc(Some("Root"), None)}],
    [path |-> "repo-main/.claude-plugin/hooks.json",
     docs |-> {JsonDoc(JObj(<<Member("PreToolUse", JArr(<<LintGroup>>))>>)),
               JsonDoc(JObj(<<Member("PreToolUse", JArr(<<LintGroup>>)),
                              Member("OnSave", JArr(<<LintGroup>>))>>)),
               Garbage}],
    [path |-> "repo-main/skills/zeta/SKILL.md",
     docs |-> {ManifestDoc(Some("zeta"), None), ManifestDoc(None, Some("unnamed")),
               Garbage, Unreadable}],
    [path |-> "repo-main/skills/alpha/SKILL.md",
     docs |-> {ManifestDoc(Some("alpha"), None), Garbage}],
    [path |-> "repo-main/plugins/foo/skills/gamma/SKILL.md",
     docs |-> {ManifestDoc(Some("gamma"), None)}],
    [path |-> "repo-main/plugins/foo/.claude-plugin/plugin.json",
     docs |-> {ManifestDoc(Some("Foo"), None)}],
    [path |-> "repo-main/plugins/foo/.claude-plugin/hooks.json",
     docs |-> {Garbage}],
    [path |-> "repo-main/commands/fix.md",
     docs |-> {ManifestDoc(Some("fix"), None), Garbage}],
    [path |-> "repo-main/commands/notes.txt",
     docs |-> {Garbage}] >>

PluginTrees == {[corrupt |-> FALSE, files |-> f] : f \in FilesOf(TreeSlots, 1)}

TreeAnswers == {Ok(a) : a \in PluginTrees} \cup {Err("Network")}

\* let archive_bytes = fetch_bytes(&archive_url)?;  answered with a plugin tree
FetchTree ==
    /\ pc = "fetch"
    /\ fetches' = fetches + 1
    /\ \E answer \in TreeAnswers :
           IF answer.ok
           THEN /\ archive_bytes' = answer.val
                /\ pc' = "prefix"
                /\ outcome' = outcome
           ELSE /\ archive_bytes' = archive_bytes
                /\ pc' = "failed"
                /\ outcome' = Some(Err(answer.err))
    /\ UNCHANGED <<repo_url, github_ref, prefix, detected, seen_paths, next_det, plugins>>
    /\ UNCHANGED <<market_plugins, flatVars, droidVars, parserVars>>

AssemblyNext ==
    \/ ParseRef
    \/ FetchTree
    \/ ComputePrefix
    \/ DetectMarketplace
    \/ DetectRootManifest
    \/ DetectPluginsDir
    \/ DetectHeuristic
    \/ Assemble
    \/ Aggregate

SpecAssembly == Init /\ [][AssemblyNext]_vars

(***************************************************************************)
(* discover_all on archives whose marketplace lists sources of every       *)
(* shape, beside one plugin of the plugins directory and two component     *)
(* directories                                                             *)
(***************************************************************************)
\* relative paths with one, no and two leading "./", a GitHub reference and
\* a URL
ListedSources ==
    {Relative("./plugins/foo"), Relative("plugins/foo"), Relative("././plugins/bar"),
     GitHub("owner/tool"), Url("https://example.com/tool")}

MaxListedSources == 2

MarketSlots == <<
    [path |-> "repo-main/.claude-plugin/marketplace.json",
     docs |-> {Garbage} \cup
              {MarketDoc(l) : l \in SeqsUpTo(ListedSources, MaxListedSources)}],
    [path |-> "repo-main/plugins/foo/.claude-plugin/plugin.json",
     docs |-> {ManifestDoc(Some("Foo"), None)}],
    [path |-> "repo-main/skills/review/SKILL.md",
     docs |-> {ManifestDoc(Some("review"), None)}],
    [path |-> "repo-main/commands/fix.md",
     docs |-> {ManifestDoc(Some("fix"), None)}] >>

MarketRepos == {[corrupt |-> FALSE, files |-> f] : f \in FilesOf(MarketSlots, 1)}

MarketAnswers == {Ok(a) : a \in MarketRepos} \cup {Err("Network")}

\* let archive_bytes = fetch_bytes(&archive_url)?;  answered with a marketplace repository
FetchMarket ==
    /\ pc = "fetch"
    /\ fetches' = fetches + 1
    /\ \E answer \in MarketAnswers :
           IF answer.ok
           THEN /\ archive_bytes' = answer.val
                /\ pc' = "prefix"
                /\ outcome' = outcome
           ELSE /\ archive_bytes' = archive_bytes
                /\ pc' = "failed"
                /\ outcome' = Some(Err(answer.err))
    /\ UNCHANGED <<repo_url, github_ref, prefix, detected, seen_paths, next_det, plugins>>
    /\ UNCHANGED <<market_plugins, flatVars, droidVars, parserVars>>

MarketplaceNext ==
    \/ ParseRef
    \/ FetchMarket
    \/ ComputePrefix
    \/ DetectMarketplace
    \/ DetectRootManifest
    \/ DetectPluginsDir
    \/ DetectHeuristic
    \/ Assemble
    \/ Aggregate

SpecMarketplace == Init /\ [][MarketplaceNext]_vars

(***************************************************************************)
(* discover_all on archives that hold plugin.json files in and out of the  *)
(* plugins directory, and a plugin with both of its manifest files         *)
(***************************************************************************)
ManifestSlots == <<
    [path |-> "repo-main/.claude-plugin/marketplace.json",
     docs |-> {MarketDoc(<<Relative("./plugins/foo")>>)}],
    [path |-> "repo-main/.claude-plugin/plugin.json",
     docs |-> {ManifestDoc(Some("Root"), None)}],
    [path |-> "repo-main/plugins/foo/.claude-plugin/plugin.json",
     docs |-> {ManifestDoc(Some("Foo"), None), Garbage, Unreadable}],
    [path |-> "repo-main/plugins/foo/plugin.json",
     docs |-> {ManifestDoc(Some("FooAlt"), None), Garbage}],
    [path |-> "repo-main/plugins/foo/skills/gamma/SKILL.md",
     docs |-> {ManifestDoc(Some("gamma"), None)}],
    [path |-> "repo-main/plugins/bar/plugin.json",
     docs |-> {ManifestDoc(Some("Bar"), None)}],
    [path |-> "repo-main/plugins/bar/extra/myplugin.json",
     docs |-> {Garbage}],
    [path |-> "repo-main/plugins/plugin.json",
     docs |-> {ManifestDoc(Some("Loose"), None)}],
    [path |-> "repo-main/src/plugin.json",
     docs |-> {ManifestDoc(Some("Src"), None)}],
    [path |-> "other-repo/plugins/baz/plugin.json",
     docs |-> {ManifestDoc(Some("Baz"), None)}] >>

ManifestRepos == {[corrupt |-> FALSE, files |-> f] : f \in FilesOf(ManifestSlots, 1)}

ManifestAnswers == {Ok(a) : a \in ManifestRepos} \cup {Err("Network")}

\* let archive_bytes = fetch_bytes(&archive_url)?;  answered with such a repository
FetchManifests ==
    /\ pc = "fetch"
    /\ fetches' = fetches + 1
    /\ \E answer \in ManifestAnswers :
           IF answer.ok
           THEN /\ archive_bytes' = answer.val
                /\ pc' = "prefix"
                /\ outcome' = outcome
           ELSE /\ archive_bytes' = archive_bytes
                /\ pc' = "failed"
                /\ outcome' = Some(Err(answer.err))
    /\ UNCHANGED <<repo_url, github_ref, prefix, detected, seen_paths, next_det, plugins>>
    /\ UNCHANGED <<market_plugins, flatVars, droidVars, parserVars>>

ManifestsNext ==
    \/ ParseRef
    \/ FetchManifests
    \/ ComputePrefix
    \/ DetectMarketplace
    \/ DetectRootManifest
    \/ DetectPluginsDir
    \/ DetectHeuristic
    \/ Assemble
    \/ Aggregate

SpecManifests == Init /\ [][ManifestsNext]_vars

(***************************************************************************)
(* DiscoveryResult::from_plugins on plugin lists drawn from a small        *)
(* universe of descriptors                                                 *)
(***************************************************************************)
MaxPlugins == 2

Component(n) == [name |-> n, description |-> None]

\* skills, commands and agents a plugin of the universe may hold
ComponentSets == {
    [skills |-> <<>>, commands |-> <<>>, agents |-> <<>>],
    [skills |-> <<Component("s1"), Component("s2")>>, commands |-> <<>>, agents |-> <<>>],
    [skills |-> <<Component("s2")>>, commands |-> <<Component("c1")>>,
     agents |-> <<Component("a1")>>],
    [skills |-> <<Component("s3")>>, commands |-> <<Component("c2"), Component("c1")>>,
     agents |-> <<Component("a2"), Component("a1")>>] }

\* server maps a plugin of the universe may hold
ServerMaps == {EmptyMap, [db |-> "stdio:node"], [db |-> "http:remote", web |-> "sse:events"]}

PluginUniverse ==
    {[name |-> "plugin", path |-> None, description |-> None,
      skills |-> c.skills, commands |-> c.commands, agents |-> c.agents,
      hooks |-> None, mcp_servers |-> m] : c \in ComponentSets, m \in ServerMaps}

FlattenInit ==
    /\ flat_in \in SeqsUpTo(PluginUniverse, MaxPlugins)
    /\ flat_out = <<>>
    /\ DiscoverIdle
    /\ DroidIdle
    /\ ParsersIdle

\* DiscoveryResult::from_plugins(flat_in)
Flatten ==
    /\ flat_out = <<>>
    /\ flat_out' = <<from_plugins(flat_in)>>
    /\ UNCHANGED <<flat_in, discoverVars, droidVars, parserVars>>

\* DiscoveryResult::from_plugins(result.plugins), on the result just returned
FlattenAgain ==
    /\ Len(flat_out) = 1
    /\ flat_out' = Append(flat_out, from_plugins(flat_out[1].plugins))
    /\ UNCHANGED <<flat_in, discoverVars, droidVars, parserVars>>

FlattenNext == Flatten \/ FlattenAgain

SpecFlatten == FlattenInit /\ [][FlattenNext]_vars

(***************************************************************************)
(* parse_mcp_server on the server objects of a small universe              *)
(***************************************************************************)
Absent(S) == {None} \cup {Some(v) : v \in S}

TypeValues == {JStr("http"), JStr("streamable-http"), JStr("sse"), JStr("stdio"),
               JStr("websocket"), JNum(2)}
UrlValues == {JStr("https://example.com/mcp"), JNum(8080)}
CommandValues == {JStr("node"), JNum(7)}
ArgsValues == {JArr(<<JStr("x.js")>>), JArr(<<JStr("x.js"), JNum(1)>>), JStr("x.js")}
MapValues == {JObj(<<Member("TOKEN", JStr("${TOKEN}")), Member("MODE", JStr("fast"))>>),
              JObj(<<Member("TOKEN", JNum(5))>>), JStr("TOKEN=1")}
DisabledValues == {JBool(TRUE), JBool(FALSE), JStr("yes")}
TimeoutValues == {JNum(30000)}

DroidInputs ==
    {[object |-> TRUE, type |-> t, url |-> u, command |-> c, args |-> a, env |-> e,
      headers |-> h, disabled |-> d, timeout |-> ms] :
        t \in Absent(TypeValues), u \in Absent(UrlValues), c \in Absent(CommandValues),
        a \in Absent(ArgsValues), e \in Absent(MapValues), h \in Absent(MapValues),
        d \in Absent(DisabledValues), ms \in Absent(TimeoutValues)}
    \cup {NotAnObject}

DroidInit ==
    /\ droid_in \in DroidInputs
    /\ droid_out = None
    /\ FlattenIdle
    /\ DiscoverIdle
    /\ ParsersIdle

\* parse_mcp_server(&droid_in)
ParseServer ==
    /\ droid_out = None
    /\ droid_out' = Some(parse_mcp_server(droid_in))
    /\ UNCHANGED <<droid_in, discoverVars, flatVars, parserVars>>

DroidNext == ParseServer

SpecDroid == DroidInit /\ [][DroidNext]_vars

(***************************************************************************)
(* parse_mcp_json on the .mcp.json texts of a small universe               *)
(***************************************************************************)
\* the members of an object: each present value under its key, in order
MembersOf(pairs) ==
    LET present == SelectSeq(pairs, LAMBDA p : IsSome(p[2]))
    IN  [i \in 1..Len(present) |-> Member(present[i][1], present[i][2][1])]

EntryTypes == {JStr("sse"), JStr("http"), JStr("streamable-http"), JStr("stdio"), JNum(2)}
EntryCommands == {JStr("node"), JNum(7), JNull}
EntryUrls == {JStr("https://example.com/mcp"), JNull}
EntryArgs == {JArr(<<JStr("server.js")>>), JStr("server.js")}
EntryEnvs == {JObj(<<Member("TOKEN", JStr("${TOKEN}")), Member("PORT", JStr("3000"))>>),
              JObj(<<Member("PORT", JNum(3000))>>)}

\* the values a server name may be bound to
EntryValues ==
    {JObj(MembersOf(<< <<"type", t>>, <<"command", c>>, <<"url", u>>, <<"args", a>>,
                       <<"env", e>>, <<"note", n>> >>)) :
        t \in Absent(EntryTypes), c \in Absent(EntryCommands), u \in Absent(EntryUrls),
        a \in Absent(EntryArgs), e \in Absent(EntryEnvs), n \in Absent({JStr("local")})}
    \cup {JStr("node server.js")}

\* a few of them, for the texts that bind two names
PairedValues ==
    {JObj(<<Member("command", JStr("node"))>>),
     JObj(<<Member("url", JStr("https://example.com/mcp"))>>),
     JObj(<<Member("type", JStr("sse")), Member("url", JStr("https://example.com/mcp"))>>),
     JObj(<<Member("command", JNum(7))>>)}

\* entries that carry the settings McpServerEntry does not name
SettingsValues ==
    {JObj(base \o MembersOf(<< <<"disabled", d>>, <<"timeout", ms>>, <<"cwd", dir>>,
                               <<"headers", h>> >>)) :
        base \in {<<Member("command", JStr("node"))>>,
                  <<Member("type", JStr("sse")), Member("url", JStr("https://example.com/mcp"))>>,
                  <<Member("type", JStr("http")), Member("url", JStr("https://example.com/mcp"))>>},
        d \in Absent({JBool(TRUE), JBool(FALSE)}),
        ms \in Absent({JNum(5000)}),
        dir \in Absent({JStr("/srv")}),
        h \in Absent({JObj(<<Member("Authorization", JStr("${TOKEN}"))>>)})}

\* flat texts, wrapped texts, wrapped texts with a further top-level member,
\* wrapped texts that bind two names, entries with settings,
\* a JSON text that is no object, and a text that is no JSON
McpTexts ==
    {JsonDoc(JObj(<<>>))}
    \cup {JsonDoc(JObj(<<Member("a", v)>>)) : v \in EntryValues}
    \cup {JsonDoc(JObj(<<Member("a", v), Member("b", w)>>)) :
              v \in PairedValues, w \in PairedValues}
    \cup {JsonDoc(JObj(<<Member("mcpServers", JObj(<<Member("a", v)>>))>>)) :
              v \in EntryValues}
    \cup {JsonDoc(JObj(<<Member("mcpServers", JObj(<<Member("a", v)>>)),
                         Member("b", w)>>)) : v \in PairedValues, w \in PairedValues}
    \cup {JsonDoc(JObj(<<Member("mcpServers",
                                   JObj(<<Member("a", v), Member("b", w)>>))>>)) :
              v \in PairedValues, w \in PairedValues}
    \cup {JsonDoc(JObj(<<Member("a", v)>>)) : v \in SettingsValues}
    \cup {JsonDoc(JObj(<<Member("mcpServers", JObj(<<Member("a", v)>>))>>)) :
              v \in SettingsValues}
    \cup {JsonDoc(JObj(<<Member("mcpServers", JNull)>>)),
          JsonDoc(JObj(<<Member("mcpServers",
                                JObj(<<Member("command", JStr("node"))>>))>>)),
          JsonDoc(JObj(<<Member("mcpServers",
                                JObj(<<Member("args", JStr("node"))>>))>>)),
          JsonDoc(JArr(<<JStr("a")>>)), Garbage}

McpInit ==
    /\ mcp_in \in McpTexts
    /\ mcp_out = None
    /\ HooksIdle
    /\ EnvIdle
    /\ DiscoverIdle
    /\ FlattenIdle
    /\ DroidIdle

\* parse_mcp_json(&mcp_in)
ParseMcpJson ==
    /\ mcp_out = None
    /\ mcp_out' = Some(parse_mcp_json(mcp_in))
    /\ UNCHANGED <<mcp_in, hooksVars, envVars, discoverVars, flatVars, droidVars>>

McpNext == ParseMcpJson

SpecMcpJson == McpInit /\ [][McpNext]_vars

(***************************************************************************)
(* parse_hooks_json on the hooks.json texts of a small universe            *)
(***************************************************************************)
ActionValues ==
    {JStr("lint"),
     JObj(<<Member("command", JStr("npm test")), Member("timeout", JNum(30000))>>),
     JObj(<<Member("command", JStr("watch")), Member("background", JBool(TRUE)),
            Member("timeout", JNull)>>),
     JObj(<<Member("timeout", JNum(5))>>),
     JObj(<<Member("command", JStr("npm test")), Member("timeout", JStr("soon"))>>),
     JNum(3)}

MaxActions == 2

HooksLists == {JArr(l) : l \in SeqsUpTo(ActionValues, MaxActions)} \cup {JStr("lint"), JNull}

GroupValues ==
    {JObj(MembersOf(<< <<"matcher", m>>, <<"hooks", h>>, <<"note", n>> >>)) :
        m \in Absent({JStr("Edit"), JNull, JNum(1)}), h \in Absent(HooksLists),
        n \in Absent({JStr("local")})}
    \cup {JStr("lint")}

\* a few of them, for the texts with several groups or events
PairedGroups ==
    {JObj(<<Member("hooks", JArr(<<JStr("lint")>>))>>),
     JObj(<<Member("matcher", JStr("Edit")),
            Member("hooks", JArr(<<JStr("lint"), JObj(<<Member("command", JStr("npm test"))>>)>>))>>),
     JObj(<<Member("matcher", JStr("Edit"))>>),
     JObj(<<Member("hooks", JArr(<<JNum(3)>>))>>)}

EventKeys == HookEvents \cup {"OnSave", "preToolUse"}

HooksTexts ==
    {JsonDoc(JObj(<<>>)), JsonDoc(JArr(<<>>)), Garbage}
    \cup {JsonDoc(JObj(<<Member(e, JArr(<<g>>))>>)) : e \in EventKeys, g \in GroupValues}
    \cup {JsonDoc(JObj(<<Member(e, v)>>)) :
              e \in EventKeys, v \in {JArr(<<>>), JStr("lint"), JNull}}
    \cup {JsonDoc(JObj(<<Member("PreToolUse", JArr(<<g, h>>))>>)) :
              g \in PairedGroups, h \in PairedGroups}
    \cup {JsonDoc(JObj(<<Member("PreToolUse", JArr(<<g>>)), Member(e, JArr(<<h>>))>>)) :
              g \in PairedGroups, h \in PairedGroups, e \in {"Stop", "OnSave"}}

HooksInit ==
    /\ hooks_in \in HooksTexts
    /\ hooks_out = None
    /\ McpIdle
    /\ EnvIdle
    /\ DiscoverIdle
    /\ FlattenIdle
    /\ DroidIdle

\* parse_hooks_json(&hooks_in)
ParseHooksJson ==
    /\ hooks_out = None
    /\ hooks_out' = Some(parse_hooks_json(hooks_in))
    /\ UNCHANGED <<hooks_in, mcpVars, envVars, discoverVars, flatVars, droidVars>>

HooksNext == ParseHooksJson

SpecHooks == HooksInit /\ [][HooksNext]_vars

(***************************************************************************)
(* EnvValue::from_native on the strings of a small universe                *)
(***************************************************************************)
EnvAlphabet == {"$", "{", "}", " ", "V"}

MaxEnvLen == 5

RECURSIVE StringsUpTo(_)
StringsUpTo(n) ==
    IF n = 0 THEN {""}
    ELSE LET shorter == StringsUpTo(n - 1)
         IN  shorter \cup {x \o c : x \in {y \in shorter : Len(y) = n - 1},
                                    c \in EnvAlphabet}

\* the strings of test_edge_cases.rs
EdgeCases == {"${}", "${VAR with spaces}", "${VAR${NESTED}}", "${VAR", "$VAR}", "${VAR}",
              "plain text"}

EnvStrings == StringsUpTo(MaxEnvLen) \cup EdgeCases \cup {"${HOME}", "${API_KEY}", "${A\tB}"}

EnvInit ==
    /\ env_in \in EnvStrings
    /\ env_out = None
    /\ McpIdle
    /\ HooksIdle
    /\ DiscoverIdle
    /\ FlattenIdle
    /\ DroidIdle

\* EnvValue::from_native(env_in, kind)
ParseEnvValue ==
    /\ env_out = None
    /\ env_out' = Some(from_native(env_in))
    /\ UNCHANGED <<env_in, mcpVars, hooksVars, discoverVars, flatVars, droidVars>>

EnvNext == ParseEnvValue

SpecEnvValue == EnvInit /\ [][EnvNext]_vars

(***************************************************************************)
(* Properties of detect_plugins and discover_all                           *)
(***************************************************************************)
\* detect_plugins has returned
Detected == pc \in {"assemble", "done"}

\* discover_all has returned from its last line
Finished == pc = "done"

ArchivePaths == {archive_bytes.files[i].path : i \in 1..Len(archive_bytes.files)}

TextAt(path) ==
    (CHOOSE f \in {archive_bytes.files[i] : i \in 1..Len(archive_bytes.files)} :
        f.path = path).content

MarketplacePath == prefix \o ".claude-plugin/marketplace.json"

\* the paths each tier finds in the archive, stated without the detector
FoundByMarketplace ==
    IF /\ MarketplacePath \in ArchivePaths
       /\ TextAt(MarketplacePath).valid
       /\ IsSome(TextAt(MarketplacePath).plugins)
    THEN LET listed == TextAt(MarketplacePath).plugins[1]
         IN  {resolve_plugin_path(listed[i].text) : i \in 1..Len(listed)}
    ELSE {}

FoundByRootManifest ==
    IF (prefix \o ".claude-plugin/plugin.json") \in ArchivePaths THEN {""} ELSE {}

FoundByPluginsDir ==
    {extract_plugins_dir_path(p, prefix)[1] :
        p \in {q \in ArchivePaths : /\ EndsWith(q, "plugin.json")
                                    /\ StartsWith(q, prefix \o "plugins/")}}

MethodsAt(path) == {detected[i].method : i \in {j \in 1..Len(detected) : detected[j].path = path}}
TimesListed(path) == Cardinality({i \in 1..Len(detected) : detected[i].path = path})

\* C1: every candidate tagged Marketplace is registered before any candidate
\* tagged PluginsDir: the marketplace paths are all in the list before the
\* plugins-directory tier runs, they precede every PluginsDir candidate in the
\* list, and no PluginsDir candidate has the path of a Marketplace candidate.
C1_MarketplaceBeforePluginsDir ==
    /\ pc \in {"tier2", "tier3"} =>
          /\ \A p \in FoundByMarketplace : MethodsAt(p) = {"Marketplace"}
          /\ \A i \in 1..Len(detected) : detected[i].method # "PluginsDir"
    /\ \A i, j \in 1..Len(detected) :
          detected[i].method = "Marketplace" /\ detected[j].method = "PluginsDir"
             => i < j /\ detected[i].path # detected[j].path

C1_Witness ==
    /\ pc = "done"
    /\ "plugins/foo" \in FoundByMarketplace \cap FoundByPluginsDir
    /\ \E i, j \in 1..Len(detected) :
          detected[i].method = "Marketplace" /\ detected[j].method = "PluginsDir"

TierRank(method) ==
    CASE method = "Marketplace" -> 1
      [] method = "PluginJson" -> 2
      [] method = "PluginsDir" -> 3
      [] method = "ComponentHeuristic" -> 4

\* the tiers that find a path, by rank
RanksFinding(path) ==
    {r \in 1..3 : \/ r = 1 /\ path \in FoundByMarketplace
                  \/ r = 2 /\ path \in FoundByRootManifest
                  \/ r = 3 /\ path \in FoundByPluginsDir}

\* C2: the list detect_plugins returns holds no path twice, and a path found
\* by a tier is listed exactly once, tagged with the earliest tier finding it.
C2_DeduplicatedEarliestTier ==
    Detected =>
        /\ \A i, j \in 1..Len(detected) : detected[i].path = detected[j].path => i = j
        /\ \A p \in FoundByMarketplace \cup FoundByRootManifest \cup FoundByPluginsDir :
              /\ TimesListed(p) = 1
              /\ \A m \in MethodsAt(p) : \A r \in RanksFinding(p) : TierRank(m) <= r
              /\ \A m \in MethodsAt(p) : TierRank(m) \in RanksFinding(p)

C2_Witness ==
    /\ pc = "done"
    /\ "" \in FoundByMarketplace \cap FoundByRootManifest
    /\ "plugins/foo" \in FoundByMarketplace \cap FoundByPluginsDir
    /\ Len(detected) = 2

ManifestTiers == {"Marketplace", "PluginJson", "PluginsDir"}

\* the component directories some archive entry lies under
ComponentDirsPresent ==
    {d \in {"skills/", "commands/", "agents/"} :
        \E p \in ArchivePaths : StartsWith(p, prefix \o d)}

\* C3: a ComponentHeuristic candidate is registered iff tiers 1-3 registered
\* none and at least two component directories exist; it is then the only
\* candidate and its path is empty.
C3_HeuristicOnlyAsLastResort ==
    Detected =>
        LET heuristic == {i \in 1..Len(detected) : detected[i].method = "ComponentHeuristic"}
            others == {i \in 1..Len(detected) : detected[i].method \in ManifestTiers}
        IN  /\ (heuristic # {}) <=> (others = {} /\ Cardinality(ComponentDirsPresent) >= 2)
            /\ heuristic # {} =>
                  detected = <<[path |-> "", method |-> "ComponentHeuristic"]>>

C3_Witness ==
    /\ pc = "done"
    /\ Cardinality(ComponentDirsPresent) = 2
    /\ detected = <<[path |-> "", method |-> "ComponentHeuristic"]>>

\* an archive holding entries under <prefix>skills/ and <prefix>commands/ and
\* nothing else, so no marketplace.json and no plugin.json anywhere
OnlySkillsAndCommands ==
    /\ ComponentDirsPresent = {"skills/", "commands/"}
    /\ \A p \in ArchivePaths :
          \/ StartsWith(p, prefix \o "skills/")
          \/ StartsWith(p, prefix \o "commands/")
    /\ \A p \in ArchivePaths :
          ~EndsWith(p, "marketplace.json") /\ ~EndsWith(p, "plugin.json")

\* C4: for an archive of skills/ and commands/ only, without any manifest,
\* discover_all returns exactly one plugin, with no path, named after the
\* repository and with no description.
C4_SyntheticPluginForBareRepo ==
    pc \in {"done", "failed"} /\ OnlySkillsAndCommands =>
        /\ pc = "done" /\ IsSome(outcome) /\ outcome[1].ok
        /\ Len(outcome[1].val.plugins) = 1
        /\ outcome[1].val.plugins[1].path = None
        /\ outcome[1].val.plugins[1].name = github_ref[1].repo
        /\ outcome[1].val.plugins[1].description = None

C4_Witness ==
    /\ pc = "done" /\ OnlySkillsAndCommands
    /\ outcome[1].val.plugins[1].name = "my-repo"
    /\ Len(outcome[1].val.all_skills) = 1
    /\ Len(outcome[1].val.all_commands) = 1

\* the manifest assembly reads for a candidate path: the one under
\* .claude-plugin/ when that entry exists, else the plugin.json beside it
ManifestPath(path) ==
    LET base == IF path = "" THEN prefix ELSE prefix \o path \o "/"
    IN  IF (base \o ".claude-plugin/plugin.json") \in ArchivePaths
        THEN Some(base \o ".claude-plugin/plugin.json")
        ELSE IF (base \o "plugin.json") \in ArchivePaths
             THEN Some(base \o "plugin.json") ELSE None

\* the manifest of a candidate can be read and parsed
ManifestUsable(path) ==
    /\ IsSome(ManifestPath(path))
    /\ TextAt(ManifestPath(path)[1]).valid
    /\ IsSome(TextAt(ManifestPath(path)[1]).name)

Assembles(det) == det.method = "ComponentHeuristic" \/ ManifestUsable(det.path)

PathOption(path) == IF path = "" THEN None ELSE Some(path)

\* C5: discovery returns Ok whatever the candidates' manifests; the plugins of
\* the result are the candidates that assemble, in the order of the detected
\* list, and a candidate whose manifest cannot be read or parsed is left out.
C5_FailedCandidatesSkipped ==
    /\ pc = "assemble" =>
          LET kept == SelectSeq(SubSeq(detected, 1, next_det - 1), Assembles)
          IN  /\ Len(plugins) = Len(kept)
              /\ \A i \in 1..Len(kept) : plugins[i].path = PathOption(kept[i].path)
    /\ Finished =>
          /\ IsSome(outcome) /\ outcome[1].ok
          /\ LET kept == SelectSeq(detected, Assembles)
                 got == outcome[1].val.plugins
             IN  /\ Len(got) = Len(kept)
                 /\ \A i \in 1..Len(kept) : got[i].path = PathOption(kept[i].path)

C5_Witness ==
    /\ Finished
    /\ Len(detected) = 3
    /\ ~Assembles(detected[2])
    /\ Len(outcome[1].val.plugins) = 2

\* C6: a candidate whose manifest is well-formed but supplies no name (the
\* field is omitted or empty) is in the result, named after the last segment
\* of its path, or after the repository when its path is empty.
C6_NameBackFilled ==
    Finished =>
        \A i \in 1..Len(detected) :
            LET det == detected[i]
                m == ManifestPath(det.path)
            IN  /\ det.method \in ManifestTiers
                /\ IsSome(m)
                /\ TextAt(m[1]).valid
                /\ TextAt(m[1]).name \in {None, Some("")}
                => \E k \in 1..Len(outcome[1].val.plugins) :
                      /\ outcome[1].val.plugins[k].path = PathOption(det.path)
                      /\ outcome[1].val.plugins[k].name =
                            (IF det.path = "" THEN github_ref[1].repo
                             ELSE LastSegment(det.path))

\* the part of C6 the code keeps: an empty name is back-filled
C6_EmptyNameBackFilled ==
    Finished =>
        \A i \in 1..Len(detected) :
            LET det == detected[i]
                m == ManifestPath(det.path)
            IN  /\ det.method \in ManifestTiers
                /\ IsSome(m)
                /\ TextAt(m[1]).valid
                /\ TextAt(m[1]).name = Some("")
                => \E k \in 1..Len(outcome[1].val.plugins) :
                      /\ outcome[1].val.plugins[k].path = PathOption(det.path)
                      /\ outcome[1].val.plugins[k].name =
                            (IF det.path = "" THEN github_ref[1].repo
                             ELSE LastSegment(det.path))

(***************************************************************************)
(* Properties of DiscoveryResult::from_plugins                             *)
(***************************************************************************)
RECURSIVE TotalLen(_, _)
\* the summed length of the first n sequences of parts
TotalLen(parts, n) == IF n = 0 THEN 0 ELSE TotalLen(parts, n - 1) + Len(parts[n])

\* all is the sequences of parts laid end to end, each in its own order
IsConcatenation(all, parts) ==
    /\ Len(all) = TotalLen(parts, Len(parts))
    /\ \A i \in 1..Len(parts) : \A k \in 1..Len(parts[i]) :
          all[TotalLen(parts, i - 1) + k] = parts[i][k]

\* C7: from_plugins keeps the plugin list and sets all_skills, all_commands
\* and all_agents to the per-plugin sequences laid end to end in plugin
\* order; applied again to the plugins of its result it returns an equal result.
C7_FlatViewsAreConcatenations ==
    /\ Len(flat_out) >= 1 =>
          LET r == flat_out[1]
          IN  /\ r.plugins = flat_in
              /\ IsConcatenation(r.all_skills, [i \in 1..Len(flat_in) |-> flat_in[i].skills])
              /\ IsConcatenation(r.all_commands, [i \in 1..Len(flat_in) |-> flat_in[i].commands])
              /\ IsConcatenation(r.all_agents, [i \in 1..Len(flat_in) |-> flat_in[i].agents])
    /\ Len(flat_out) = 2 => flat_out[2] = flat_out[1]

C7_Witness ==
    /\ Len(flat_out) = 2
    /\ Len(flat_in) = 2
    /\ Len(flat_in[1].skills) = 2 /\ Len(flat_in[2].skills) = 1
    /\ flat_in[1].skills[1] # flat_in[2].skills[1]
    /\ Len(flat_out[1].all_skills) = 3
    /\ Len(flat_out[1].all_commands) = 2

\* the plugins, by index, whose server map has the name
Holders(name) == {i \in 1..Len(flat_in) : name \in DOMAIN flat_in[i].mcp_servers}

\* C8: the keys of all_mcp_servers are the server names of all plugins, and a
\* name several plugins carry keeps the value of the last of them.
C8_ServerMapLastWriteWins ==
    Len(flat_out) >= 1 =>
        LET all == flat_out[1].all_mcp_servers
        IN  /\ DOMAIN all = UNION {DOMAIN flat_in[i].mcp_servers : i \in 1..Len(flat_in)}
            /\ \A name \in DOMAIN all :
                  LET last == CHOOSE i \in Holders(name) : \A j \in Holders(name) : j <= i
                  IN  all[name] = flat_in[last].mcp_servers[name]

C8_Witness ==
    /\ Len(flat_out) >= 1
    /\ Len(flat_in) = 2
    /\ "db" \in DOMAIN flat_in[1].mcp_servers /\ "db" \in DOMAIN flat_in[2].mcp_servers
    /\ flat_in[1].mcp_servers["db"] # flat_in[2].mcp_servers["db"]
    /\ "web" \in DOMAIN flat_in[1].mcp_servers /\ "web" \notin DOMAIN flat_in[2].mcp_servers
    /\ flat_out[1].all_mcp_servers["db"] = flat_in[2].mcp_servers["db"]

(***************************************************************************)
(* Properties of the Droid parse_mcp_server                                *)
(***************************************************************************)
Parsed == IsSome(droid_out)
Answer == droid_out[1]

IsString(o) == IsSome(o) /\ o[1].kind = "string"

\* a `headers` or `env` member that is absent, or an object of strings
StringMapOrAbsent(o) ==
    ~IsSome(o) \/ (/\ o[1].kind = "object"
                   /\ \A i \in 1..Len(o[1].entries) : o[1].entries[i].value.kind = "string")

\* an `args` member that is absent, or an array of strings
StringArrayOrAbsent(o) ==
    ~IsSome(o) \/ (/\ o[1].kind = "array"
                   /\ \A i \in 1..Len(o[1].items) : o[1].items[i].kind = "string")

\* the members a remote (Http, Sse) server reads are well-formed
RemoteShape == IsString(droid_in.url) /\ StringMapOrAbsent(droid_in.headers)

\* the members a Stdio server reads are well-formed
StdioShape ==
    /\ IsString(droid_in.command)
    /\ StringArrayOrAbsent(droid_in.args)
    /\ StringMapOrAbsent(droid_in.env)

Yields(variant) == Answer.ok /\ Answer.val.variant = variant

RejectsAsUnsupported == ~Answer.ok /\ Answer.err.kind = "UnsupportedMcpConfig"

\* C9: an object with a string `type` is dispatched on it: "http" and
\* "streamable-http" give Http, "sse" gives Sse, "stdio" gives Stdio (each on
\* an object whose other members are well-formed), and any other type is
\* rejected as unsupported with a reason naming the type.
C9_TypedDispatch ==
    Parsed /\ droid_in.object /\ IsString(droid_in.type) =>
        LET t == droid_in.type[1].str
        IN  /\ t \in {"http", "streamable-http"} /\ RemoteShape => Yields("Http")
            /\ t = "sse" /\ RemoteShape => Yields("Sse")
            /\ t = "stdio" /\ StdioShape => Yields("Stdio")
            /\ t \notin {"http", "streamable-http", "sse", "stdio"} =>
                  /\ RejectsAsUnsupported
                  /\ Contains(Answer.err.reason, t)

\* C10 as claimed: an object without `type` gives Sse when it has a `url` and
\* no `command`, and otherwise goes to the Stdio branch, which succeeds only
\* with a string `command` and is rejected as unsupported without `command`.
C10_UntypedUrlWithoutCommand ==
    Parsed /\ droid_in.object /\ ~IsSome(droid_in.type) =>
        IF IsSome(droid_in.url) /\ ~IsSome(droid_in.command)
        THEN RemoteShape => Yields("Sse")
        ELSE /\ Answer.ok => Answer.val.variant = "Stdio" /\ IsString(droid_in.command)
             /\ StdioShape => Yields("Stdio")
             /\ ~IsSome(droid_in.command) => RejectsAsUnsupported

\* C10, amended: an object without `type` goes to the Sse branch whenever it
\* has a `url` key, with or without `command` (Sse for a string url and
\* well-formed headers, rejected as unsupported for a url that is no string);
\* only without `url` does it go to the Stdio branch, which succeeds only with
\* a string `command` and is rejected as unsupported without `command`.
C10_UntypedUrlFirst ==
    Parsed /\ droid_in.object /\ ~IsSome(droid_in.type) =>
        IF IsSome(droid_in.url)
        THEN /\ Answer.ok => Answer.val.variant = "Sse"
             /\ RemoteShape => Yields("Sse")
             /\ ~IsString(droid_in.url) => RejectsAsUnsupported
        ELSE /\ Answer.ok => Answer.val.variant = "Stdio" /\ IsString(droid_in.command)
             /\ StdioShape => Yields("Stdio")
             /\ ~IsSome(droid_in.command) => RejectsAsUnsupported

C10_Witness ==
    /\ Parsed /\ droid_in.object /\ ~IsSome(droid_in.type)
    /\ IsString(droid_in.url) /\ IsString(droid_in.command)
    /\ Yields("Sse")
    /\ Answer.val.url = "https://example.com/mcp"

IsBool(o) == IsSome(o) /\ o[1].kind = "bool"

\* {"command": "node", "args": ["x.js"], "disabled": true}
DisabledNodeServer ==
    [object |-> TRUE, type |-> None, url |-> None, command |-> Some(JStr("node")),
     args |-> Some(JArr(<<JStr("x.js")>>)), env |-> None, headers |-> None,
     disabled |-> Some(JBool(TRUE)), timeout |-> None]

\* C11: whatever variant parse_mcp_server produces, its enabled flag is the
\* negation of the `disabled` boolean of the input when that member is
\* present, and true when it is absent; the object {command: node,
\* args: [x.js], disabled: true} gives a Stdio server with enabled = false.
C11_EnabledInvertsDisabled ==
    Parsed /\ Answer.ok =>
        /\ Answer.val.variant \in {"Http", "Sse", "Stdio"}
        /\ IsBool(droid_in.disabled) => Answer.val.enabled = ~droid_in.disabled[1].bool
        /\ ~IsSome(droid_in.disabled) => Answer.val.enabled = TRUE
        /\ droid_in = DisabledNodeServer =>
              /\ Answer.val.variant = "Stdio"
              /\ Answer.val.command = "node"
              /\ Answer.val.args = <<"x.js">>
              /\ Answer.val.enabled = FALSE

C11_Witness ==
    /\ Parsed /\ droid_in = DisabledNodeServer
    /\ Yields("Stdio") /\ Answer.val.enabled = FALSE

\* a `headers` or `env` member that is present and no object
NotAnObjectMember(o) == IsSome(o) /\ o[1].kind # "object"

\* the positions of the members of an object member that are no strings
BadValues(o) ==
    IF IsSome(o) /\ o[1].kind = "object"
    THEN {i \in 1..Len(o[1].entries) : o[1].entries[i].value.kind # "string"}
    ELSE {}

\* an `args` member that is present and no array
NotAnArrayMember(o) == IsSome(o) /\ o[1].kind # "array"

\* the positions of the elements of an array member that are no strings
BadItems(o) ==
    IF IsSome(o) /\ o[1].kind = "array"
    THEN {i \in 1..Len(o[1].items) : o[1].items[i].kind # "string"}
    ELSE {}

HeadersWrong == NotAnObjectMember(droid_in.headers) \/ BadValues(droid_in.headers) # {}
EnvWrong == NotAnObjectMember(droid_in.env) \/ BadValues(droid_in.env) # {}
ArgsWrong == NotAnArrayMember(droid_in.args) \/ BadItems(droid_in.args) # {}

First(S) == CHOOSE i \in S : \A j \in S : i <= j

ReasonNames(text) == ~Answer.ok /\ Contains(Answer.err.reason, text)

\* the members the parse of droid_in reads: those of a remote server (the
\* "http" arm, the branch for an untyped object with a url), those of a stdio
\* server, or none (another type)
MembersRead ==
    IF IsString(droid_in.type)
    THEN CASE droid_in.type[1].str = "http" -> "remote"
           [] droid_in.type[1].str = "stdio" -> "stdio"
           [] OTHER -> "none"
    ELSE IF IsSome(droid_in.url) THEN "remote" ELSE "stdio"

\* C12: the parse is rejected as unsupported, and gives no server, whenever a
\* member the selected branch recognizes has the wrong kind: `headers` (no object, or a value
\* that is no string) for a remote server, `args` (no array, or an element
\* that is no string) and `env` (no object, or a value that is no string) for
\* a stdio server.  The reason names the key of the first offending value, or
\* the index of the first offending element, when the members the branch
\* checks before it (url; command, then args) are well-formed.
C12_WrongKindOfReadMemberRejected ==
    Parsed /\ droid_in.object =>
        /\ MembersRead = "remote" =>
              /\ HeadersWrong => RejectsAsUnsupported
              /\ IsString(droid_in.url) /\ NotAnObjectMember(droid_in.headers)
                    => ReasonNames("'headers'")
              /\ IsString(droid_in.url) /\ BadValues(droid_in.headers) # {}
                    => ReasonNames("Header '" \o
                          droid_in.headers[1].entries[First(BadValues(droid_in.headers))].key
                          \o "'")
        /\ MembersRead = "stdio" =>
              /\ (ArgsWrong \/ EnvWrong) => RejectsAsUnsupported
              /\ IsString(droid_in.command) /\ NotAnArrayMember(droid_in.args)
                    => ReasonNames("'args'")
              /\ IsString(droid_in.command) /\ BadItems(droid_in.args) # {}
                    => ReasonNames("args[" \o ToString(First(BadItems(droid_in.args)) - 1)
                                   \o "]")
              /\ IsString(droid_in.command) /\ StringArrayOrAbsent(droid_in.args)
                 /\ NotAnObjectMember(droid_in.env)
                    => ReasonNames("'env'")
              /\ IsString(droid_in.command) /\ StringArrayOrAbsent(droid_in.args)
                 /\ BadValues(droid_in.env) # {}
                    => ReasonNames("Environment variable '" \o
                          droid_in.env[1].entries[First(BadValues(droid_in.env))].key
                          \o "'")

\* a stdio server whose env holds a number is rejected, the reason naming TOKEN
C12_Witness ==
    /\ Parsed /\ droid_in.object /\ MembersRead = "stdio"
    /\ IsString(droid_in.command) /\ StringArrayOrAbsent(droid_in.args)
    /\ BadValues(droid_in.env) # {}
    /\ RejectsAsUnsupported
    /\ Answer.err.reason = "Environment variable 'TOKEN' must be a string"

(***************************************************************************)
(* Properties of parse_mcp_json                                            *)
(***************************************************************************)
McpParsed == IsSome(mcp_out)
McpAnswer == mcp_out[1]

\* the text is JSON and denotes an object
IsJsonObject(content) ==
    content.valid /\ IsSome(content.json) /\ content.json[1].kind = "object"

TopLevel == mcp_in.json[1].entries

\* the members of the object under mcpServers, when there is one
UnderMcpServers ==
    IF /\ IsJsonObject(mcp_in) /\ IsSome(Get(TopLevel, "mcpServers"))
       /\ Get(TopLevel, "mcpServers")[1].kind = "object"
    THEN Get(TopLevel, "mcpServers")[1].entries ELSE <<>>

\* the members the answer was built from
SourceEntries == IF FromStrWrapped(mcp_in).ok THEN UnderMcpServers ELSE TopLevel

HasKey(v, key) == v.kind = "object" /\ IsSome(Get(v.entries, key))
HasString(v, key) == HasKey(v, key) /\ Get(v.entries, key)[1].kind = "string"

\* the text an environment value was read from
RawText(value) ==
    IF value.variant = "EnvRef" THEN "${" \o value.text \o "}" ELSE value.text

\* the header and environment values of a server
ValuesOf(server) ==
    IF server.variant = "Stdio" THEN {server.env[k] : k \in DOMAIN server.env}
    ELSE {server.headers[k] : k \in DOMAIN server.headers}

\* C13: every header and environment value of a parsed server, from
\* parse_mcp_server and from parse_mcp_json alike, is what from_native gives
\* for its raw string: a raw ${NAME} is a reference to NAME, never a literal.
C13_ValuesThroughEnvParser ==
    /\ Parsed /\ Answer.ok =>
          \A value \in ValuesOf(Answer.val) : value = from_native(RawText(value))
    /\ McpParsed /\ McpAnswer.ok =>
          \A name \in DOMAIN McpAnswer.val :
              \A value \in ValuesOf(McpAnswer.val[name]) :
                  value = from_native(RawText(value))

\* has `command` and no `url`
StdioShaped(v) == HasKey(v, "command") /\ ~HasKey(v, "url")
\* has `url` and no `command`
RemoteShaped(v) == HasKey(v, "url") /\ ~HasKey(v, "command")

\* C14: parsing keeps the transport class: an object with `command` and no
\* `url` never gives Http or Sse, an object with `url` and no `command` never
\* gives Stdio, in parse_mcp_server and in parse_mcp_json's conversion.
C14_TransportClassKept ==
    /\ Parsed /\ Answer.ok =>
          /\ IsSome(droid_in.command) /\ ~IsSome(droid_in.url)
                => Answer.val.variant = "Stdio"
          /\ IsSome(droid_in.url) /\ ~IsSome(droid_in.command)
                => Answer.val.variant # "Stdio"
    /\ McpParsed /\ McpAnswer.ok =>
          \A name \in DOMAIN McpAnswer.val :
              LET entry == Get(SourceEntries, name)[1]
              IN  /\ StdioShaped(entry) => McpAnswer.val[name].variant = "Stdio"
                  /\ RemoteShaped(entry) => McpAnswer.val[name].variant # "Stdio"

\* C15: parse_mcp_json answers a text that is no JSON with a JSON parse
\* error; when the text parses as the wrapped shape the answer holds servers
\* only for names under mcpServers, each built from its entry there; the flat
\* shape is used only when the wrapped parse fails, and then the answer holds
\* servers only for top-level names.
C15_WrappedBeforeFlat ==
    McpParsed =>
        /\ ~(mcp_in.valid /\ IsSome(mcp_in.json)) =>
              ~McpAnswer.ok /\ McpAnswer.err = "JsonParse"
        /\ FromStrWrapped(mcp_in).ok =>
              /\ McpAnswer.ok
              /\ DOMAIN McpAnswer.val \subseteq Keys(UnderMcpServers)
              /\ \A name \in Keys(UnderMcpServers) :
                    LET entry == Get(UnderMcpServers, name)[1]
                    IN  ~HasKey(entry, "type") /\ HasString(entry, "command") =>
                          /\ name \in DOMAIN McpAnswer.val
                          /\ McpAnswer.val[name].variant = "Stdio"
                          /\ McpAnswer.val[name].command =
                                Get(entry.entries, "command")[1].str
        /\ ~FromStrWrapped(mcp_in).ok /\ McpAnswer.ok =>
              /\ FromStrEntryMap(mcp_in).ok
              /\ DOMAIN McpAnswer.val \subseteq Keys(TopLevel)
        /\ ~FromStrWrapped(mcp_in).ok /\ ~FromStrEntryMap(mcp_in).ok => ~McpAnswer.ok

\* a wrapped text with a further top-level member that is itself a server
\* entry: the answer holds the server under mcpServers alone
C15_Witness ==
    /\ McpParsed /\ FromStrWrapped(mcp_in).ok /\ FromStrEntryMap(mcp_in).ok
    /\ IsSome(Get(TopLevel, "b")) /\ HasString(Get(TopLevel, "b")[1], "command")
    /\ McpAnswer.ok /\ DOMAIN McpAnswer.val = {"a"}
    /\ McpAnswer.val["a"].variant = "Stdio"

\* C16: of the entries of an accepted text that carry no `type`, one with a
\* string `command` is in the answer as a Stdio server, and one with a string
\* `url` and no `command` is in the answer, under its name, as a server that
\* is not Stdio.
C16_CommandOrUrlKeyed ==
    McpParsed /\ McpAnswer.ok =>
        \A i \in 1..Len(SourceEntries) :
            LET name == SourceEntries[i].key
                entry == SourceEntries[i].value
            IN  /\ ~HasKey(entry, "type") /\ HasString(entry, "command") =>
                      /\ name \in DOMAIN McpAnswer.val
                      /\ McpAnswer.val[name].variant = "Stdio"
                /\ (/\ ~HasKey(entry, "type") /\ HasString(entry, "url")
                     /\ ~HasKey(entry, "command")) =>
                      /\ name \in DOMAIN McpAnswer.val
                      /\ McpAnswer.val[name].variant # "Stdio"

(***************************************************************************)
(* Properties of EnvValue::from_native                                     *)
(***************************************************************************)
\* the names a reference may carry: not empty, and without braces, `$` and
\* whitespace
ReferenceNames ==
    {name \in StringsUpTo(MaxEnvLen) \cup {"VAR", "HOME", "API_KEY"} :
        /\ name # ""
        /\ \A i \in 1..Len(name) : \A c \in NameBreakers : SubSeq(name, i, i) # c}

\* C17: from_native gives the reference to NAME exactly when the whole string
\* is ${NAME} for a name that is not empty and holds no brace, `$` or
\* whitespace; for every other string, ${}, ${VAR with spaces},
\* ${VAR${NESTED}}, ${VAR and $VAR} among them, it gives the literal of the
\* string unchanged.
C17_ReferenceExactlyForWholeName ==
    IsSome(env_out) =>
        /\ \A name \in ReferenceNames :
              env_in = "${" \o name \o "}" => env_out[1] = EnvRef(name)
        /\ env_out[1].variant = "EnvRef" =>
              /\ env_out[1].text \in ReferenceNames
              /\ env_in = "${" \o env_out[1].text \o "}"
        /\ env_out[1].variant = "Plain" => env_out[1].text = env_in
        /\ env_in \in {"${}", "${VAR with spaces}", "${VAR${NESTED}}", "${VAR", "$VAR}"}
              => env_out[1] = Plain(env_in)
        /\ env_in = "${VAR}" => env_out[1] = EnvRef("VAR")

\* the nested form is kept as a literal
C17_Witness ==
    /\ env_in = "${VAR${NESTED}}"
    /\ env_out = Some(Plain("${VAR${NESTED}}"))

(***************************************************************************)
(* Properties of parse_hooks_json                                          *)
(***************************************************************************)
HooksParsed == IsSome(hooks_out)
HooksAnswer == hooks_out[1]

HooksTop == hooks_in.json[1].entries

\* the groups written under an event of the text
GroupsWritten(event) ==
    LET v == Get(HooksTop, event)[1]
    IN  IF v.kind = "array" THEN v.items ELSE <<>>

\* a group that is no object with an array under `hooks`
LacksHooksList(g) ==
    \/ g.kind # "object"
    \/ ~IsSome(Get(g.entries, "hooks"))
    \/ Get(g.entries, "hooks")[1].kind # "array"

\* some part of the text is malformed: it is no JSON object, it has a key that
\* is no hook event, or it has a group without a hooks list
SomePartMalformed ==
    \/ ~IsJsonObject(hooks_in)
    \/ \E event \in Keys(HooksTop) :
          \/ event \notin HookEvents
          \/ \E i \in 1..Len(GroupsWritten(event)) :
                LacksHooksList(GroupsWritten(event)[i])

\* the configuration holds every event of the text, every group of every
\* event and every action of every group
CoversWholeText(config) ==
    /\ IsJsonObject(hooks_in)
    /\ DOMAIN config = Keys(HooksTop)
    /\ \A event \in Keys(HooksTop) :
          /\ Get(HooksTop, event)[1].kind = "array"
          /\ Len(config[event]) = Len(GroupsWritten(event))
          /\ \A i \in 1..Len(GroupsWritten(event)) :
                /\ ~LacksHooksList(GroupsWritten(event)[i])
                /\ Len(config[event][i].hooks) =
                      Len(Get(GroupsWritten(event)[i].entries, "hooks")[1].items)

\* C19: parse_hooks_json gives either the configuration of the whole text or
\* an error, never a part of it: a text with a malformed part (no JSON, a key
\* outside the five hook events, a group without a hooks list) is an error,
\* and a configuration holds every event, group and action of the text.
C19_HooksAllOrNothing ==
    HooksParsed =>
        /\ SomePartMalformed => ~HooksAnswer.ok /\ HooksAnswer.err = "JsonParse"
        /\ HooksAnswer.ok => CoversWholeText(HooksAnswer.val)

\* a text with a good event and an unknown one is refused as a whole
C19_Witness ==
    /\ HooksParsed /\ IsJsonObject(hooks_in)
    /\ "PreToolUse" \in Keys(HooksTop) /\ "OnSave" \in Keys(HooksTop)
    /\ HookGroups(Get(HooksTop, "PreToolUse")[1]).ok
    /\ ~HooksAnswer.ok

(***************************************************************************)
(* Properties of the assembly of a candidate                               *)
(***************************************************************************)
HooksPath(path) == BasePath(prefix, path) \o ".claude-plugin/hooks.json"

\* the candidate's hooks.json exists (and can be read) but does not parse
HooksMalformed(path) ==
    /\ HooksPath(path) \in ArchivePaths
    /\ TextAt(HooksPath(path)).readable
    /\ ~parse_hooks_json(TextAt(HooksPath(path))).ok

\* the plugins of the result that lie at the candidate's path
ResultAt(path) ==
    {k \in 1..Len(outcome[1].val.plugins) :
        outcome[1].val.plugins[k].path = PathOption(path)}

\* C18 as claimed: a manifest-bearing candidate whose hooks.json exists but
\* does not parse is not in the result.
C18_MalformedHooksFailCandidate ==
    Finished =>
        \A i \in 1..Len(detected) :
            detected[i].method \in ManifestTiers /\ HooksMalformed(detected[i].path)
                => ResultAt(detected[i].path) = {}

\* C18, amended: a manifest-bearing candidate whose manifest is usable and
\* whose hooks.json exists but does not parse is in the result, with its
\* hooks absent; only the manifest decides whether the candidate is returned.
C18_MalformedHooksAreAbsent ==
    Finished =>
        \A i \in 1..Len(detected) :
            (/\ detected[i].method \in ManifestTiers
             /\ HooksMalformed(detected[i].path))
            => /\ ManifestUsable(detected[i].path) <=> ResultAt(detected[i].path) # {}
               /\ \A k \in ResultAt(detected[i].path) :
                     outcome[1].val.plugins[k].hooks = None

C18_Witness ==
    /\ Finished
    /\ \E i \in 1..Len(detected) :
          /\ detected[i].method \in ManifestTiers
          /\ detected[i].path = ""
          /\ HooksMalformed("")
          /\ TextAt(HooksPath("")).valid
          /\ \E k \in ResultAt("") :
                /\ outcome[1].val.plugins[k].name = "Root"
                /\ outcome[1].val.plugins[k].hooks = None

\* the names of the component files under base + subdir that end in suffix,
\* can be read and carry a name, in listing order
NamesWritten(base, subdir, suffix) ==
    LET kept == SelectSeq(archive_bytes.files,
                    LAMBDA f : /\ StartsWith(f.path, base \o subdir)
                               /\ EndsWith(f.path, suffix)
                               /\ f.content.readable
                               /\ f.content.valid
                               /\ IsSome(f.content.name))
    IN  [i \in 1..Len(kept) |-> kept[i].content.name[1]]

NamesOf(descriptors) == [i \in 1..Len(descriptors) |-> descriptors[i].name]

\* the component files under base + subdir with the suffix that cannot be
\* read or parsed
Dropped(base, subdir, suffix) ==
    {i \in 1..Len(archive_bytes.files) :
        /\ StartsWith(archive_bytes.files[i].path, base \o subdir)
        /\ EndsWith(archive_bytes.files[i].path, suffix)
        /\ ~(/\ archive_bytes.files[i].content.readable
              /\ archive_bytes.files[i].content.valid
              /\ IsSome(archive_bytes.files[i].content.name))}

\* C20: the skills, commands and agents of an assembled plugin are the
\* descriptors of exactly the files under its base path and component
\* directory that have the suffix and can be read and parsed, in the order of
\* the archive listing; a file that cannot is dropped, the others stay and
\* the plugin is returned all the same.
C20_ScanTolerantInListingOrder ==
    /\ Detected =>
          \A k \in 1..Len(plugins) :
              LET base == BasePath(prefix, IF plugins[k].path = None THEN ""
                                           ELSE plugins[k].path[1])
              IN  /\ NamesOf(plugins[k].skills) = NamesWritten(base, "skills/", "SKILL.md")
                  /\ NamesOf(plugins[k].commands) = NamesWritten(base, "commands/", ".md")
                  /\ NamesOf(plugins[k].agents) = NamesWritten(base, "agents/", ".md")
                  /\ \A c \in 1..Len(plugins[k].commands) :
                        plugins[k].commands[c].kind = "command"
    /\ Finished =>
          \A i \in 1..Len(detected) :
              Assembles(detected[i]) => ResultAt(detected[i].path) # {}

\* of two skill files the first cannot be parsed or read: the second is kept
C20_Witness ==
    /\ Finished
    /\ Dropped(prefix, "skills/", "SKILL.md") # {}
    /\ \E k \in ResultAt("") :
          NamesOf(outcome[1].val.plugins[k].skills) = <<"alpha">>

(***************************************************************************)
(* Properties of discover_all: what reaches the caller                     *)
(***************************************************************************)
\* the archive gives no tier a candidate: no marketplace that parses, no root
\* manifest, no plugin.json under plugins/, fewer than two component
\* directories
NoTierYields ==
    /\ FoundByMarketplace \cup FoundByRootManifest \cup FoundByPluginsDir = {}
    /\ Cardinality(ComponentDirsPresent) < 2

\* C21: when discover_all runs on an archive in which no marketplace or root
\* manifest is located and no fallback tier yields a candidate, it returns an
\* error, not Ok with an empty plugin list.
C21_NothingLocatedIsAnError ==
    pc \in {"done", "failed"} /\ NoTierYields => IsSome(outcome) /\ ~outcome[1].ok

\* the entries of the archive that find_marketplace_json may take
MarketplaceEntries ==
    {p \in ArchivePaths : Contains(p, ".claude-plugin/marketplace.json")}

\* .claude-plugin/marketplace.json exists but is not valid marketplace JSON
MarketplaceMalformed ==
    /\ MarketplaceEntries # {}
    /\ \A p \in MarketplaceEntries :
          /\ TextAt(p).readable
          /\ ~(TextAt(p).valid /\ IsSome(TextAt(p).plugins))

Returned == pc \in {"done", "failed", "plugins_done", "plugins_failed"}

\* C22: when .claude-plugin/marketplace.json exists but is not valid
\* marketplace JSON, discover_plugins and discover_all both return an error
\* and produce no plugins.
C22_MalformedMarketplaceAborts ==
    Returned /\ MarketplaceMalformed =>
        /\ IsSome(outcome) /\ ~outcome[1].ok
        /\ plugins = <<>>

\* the discover_plugins half of C22, which the code keeps
C22_PluginsEntryPointAborts ==
    pc \in {"plugins_done", "plugins_failed"} /\ MarketplaceMalformed =>
        /\ outcome = Some(Err("JsonParse"))
        /\ plugins = <<>>

\* the place of a position in the order resolve reference, fetch, compute
\* prefix, detect, assemble, return; reading the marketplace is the detection
\* of discover_plugins
StatedOrder(p) ==
    CASE p \in {"start", "plugins_start"} -> 1
      [] p \in {"fetch", "plugins_fetch"} -> 2
      [] p \in {"prefix", "plugins_prefix"} -> 3
      [] p \in {"tier1", "tier2", "tier3", "tier4", "plugins_marketplace"} -> 4
      [] p \in {"assemble", "plugins_assemble"} -> 5
      [] p \in {"done", "failed", "plugins_done", "plugins_failed"} -> 6

\* the same, with discover_plugins reading the marketplace before it computes
\* the prefix
CodeOrder(p) ==
    CASE p = "plugins_marketplace" -> 3
      [] p = "plugins_prefix" -> 4
      [] OTHER -> StatedOrder(p)

FailedNext == pc' \in {"failed", "plugins_failed"}

\* what a step may do to the fetch count, and what a failed reference parse
\* or a failed fetch leaves behind
FetchDiscipline ==
    /\ pc \notin {"done", "failed", "plugins_done", "plugins_failed"}
    /\ fetches' <= 1
    /\ fetches' # fetches => IsSome(github_ref) /\ StatedOrder(pc) = 2
    /\ StatedOrder(pc) = 1 /\ FailedNext =>
          /\ fetches' = 0
          /\ IsSome(outcome') /\ ~outcome'[1].ok
    /\ StatedOrder(pc) = 2 /\ FailedNext =>
          /\ fetches' = 1
          /\ IsSome(outcome') /\ ~outcome'[1].ok
          /\ detected' = <<>> /\ market_plugins' = None /\ plugins' = <<>>

\* C23 as stated: every run of discover_all and of discover_plugins follows
\* the order resolve reference, fetch, compute prefix, detect, assemble;
\* fetch_bytes is called at most once and only after the reference parsed; a
\* reference parse failure returns an error with no fetch, a fetch failure
\* returns an error with no retry and no detection or assembly step.
C23_StatedOrderOfSteps ==
    [][StatedOrder(pc) <= StatedOrder(pc') /\ FetchDiscipline]_vars

\* C23, amended: discover_all follows the order resolve reference, fetch,
\* compute prefix, detect, assemble, and discover_plugins the order resolve
\* reference, fetch, read the marketplace, compute prefix, assemble; in both,
\* fetch_bytes is called at most once and only after the reference parsed, a
\* reference parse failure returns an error with no fetch, and a fetch
\* failure returns an error with no retry and no later step.
C23_OrderOfSteps ==
    [][CodeOrder(pc) <= CodeOrder(pc') /\ FetchDiscipline]_vars

\* discover_plugins has returned plugins after its one fetch
C23_Witness ==
    /\ pc = "plugins_done"
    /\ fetches = 1
    /\ IsSome(market_plugins)
    /\ IsSome(outcome) /\ outcome[1].ok /\ Len(outcome[1].val) >= 1

(***************************************************************************)
(* Properties of the marketplace tier                                      *)
(***************************************************************************)
\* the marketplace tier has run
MarketplaceTierDone == pc \in {"tier2", "tier3", "tier4", "assemble", "done"}

\* the sources the marketplace of the archive lists, when it parses
ListedInMarketplace ==
    IF /\ MarketplacePath \in ArchivePaths
       /\ TextAt(MarketplacePath).valid
       /\ IsSome(TextAt(MarketplacePath).plugins)
    THEN TextAt(MarketplacePath).plugins[1]
    ELSE <<>>

\* a source string without one leading "./"
WithoutDotSlash(s) ==
    IF Len(s) >= 2 /\ SubSeq(s, 1, 2) = "./" THEN SubSeq(s, 3, Len(s)) ELSE s

\* the items of a sequence, each at its first occurrence
RECURSIVE FirstOccurrences(_)
FirstOccurrences(seq) ==
    IF seq = <<>> THEN <<>>
    ELSE LET front == FirstOccurrences(SubSeq(seq, 1, Len(seq) - 1))
             last == seq[Len(seq)]
         IN  IF \E i \in 1..Len(front) : front[i] = last THEN front
             ELSE Append(front, last)

MarketplaceCandidates ==
    SelectSeq(detected, LAMBDA d : d.method = "Marketplace")

\* C24: the marketplace tier registers one candidate per distinct listed
\* source, sources being distinct when their resolved paths are, in the order
\* of the marketplace list; the path of a candidate is the source string with
\* one leading "./" removed, a string without it being left as it is; the
\* source "./plugins/foo" yields the candidate path "plugins/foo".
C24_MarketplaceCandidatesAsListed ==
    MarketplaceTierDone =>
        LET listed == ListedInMarketplace
            paths == [i \in 1..Len(listed) |-> WithoutDotSlash(listed[i].text)]
            expected == FirstOccurrences(paths)
        IN  /\ Len(MarketplaceCandidates) = Len(expected)
            /\ \A i \in 1..Len(expected) : MarketplaceCandidates[i].path = expected[i]
            /\ pc = "tier2" => detected = MarketplaceCandidates
            /\ (\E i \in 1..Len(listed) : listed[i] = Relative("./plugins/foo")) =>
                  /\ \E k \in 1..Len(detected) :
                        detected[k] = [path |-> "plugins/foo", method |-> "Marketplace"]
                  /\ \A k \in 1..Len(detected) : detected[k].path # "./plugins/foo"

\* a marketplace listing a relative path with two leading "./" and then
\* "./plugins/foo"
C24_Witness ==
    /\ pc = "done"
    /\ ListedInMarketplace = <<Relative("././plugins/bar"), Relative("./plugins/foo")>>
    /\ MarketplaceCandidates =
          <<[path |-> "./plugins/bar", method |-> "Marketplace"],
            [path |-> "plugins/foo", method |-> "Marketplace"]>>

(***************************************************************************)
(* Properties of the plugins-directory tier                                *)
(***************************************************************************)
\* the plugins-directory tier has run
PluginsDirTierDone == pc \in {"tier4", "assemble", "done"}

ListedPaths == [i \in 1..Len(archive_bytes.files) |-> archive_bytes.files[i].path]

\* the listed files that end in plugin.json and lie under <prefix>plugins/
UnderPluginsDir ==
    SelectSeq(ListedPaths, LAMBDA p : /\ EndsWith(p, "plugin.json")
                                      /\ StartsWith(p, prefix \o "plugins/"))

\* plugins/<first path segment after plugins/> of such a file
PluginDirOf(p) ==
    LET after == SubSeq(p, Len(prefix \o "plugins/") + 1, Len(p))
        cut == CHOOSE n \in 0..Len(after) :
                   /\ n = Len(after) \/ SubSeq(after, n + 1, n + 1) = "/"
                   /\ \A m \in 1..n : SubSeq(after, m, m) # "/"
    IN  "plugins/" \o SubSeq(after, 1, cut)

\* the paths the marketplace and the root manifest tiers registered
SeenBeforePluginsDir ==
    {detected[i].path : i \in {j \in 1..Len(detected) :
                                  detected[j].method \in {"Marketplace", "PluginJson"}}}

PluginsDirCandidates ==
    SelectSeq(detected, LAMBDA d : d.method = "PluginsDir")

\* C25: the plugins-directory tier registers, for every listed file ending in
\* plugin.json whose path starts with the root prefix followed by plugins/,
\* the candidate plugins/<first path segment after plugins/> if not already
\* seen, in listing order; extract_plugins_dir_path gives None for a file
\* outside the prefix or not under plugins/.
C25_PluginsDirCandidates ==
    /\ PluginsDirTierDone =>
          LET dirs == [i \in 1..Len(UnderPluginsDir) |-> PluginDirOf(UnderPluginsDir[i])]
              unseen == SelectSeq(dirs, LAMBDA d : d \notin SeenBeforePluginsDir)
              expected == FirstOccurrences(unseen)
          IN  /\ Len(PluginsDirCandidates) = Len(expected)
              /\ \A i \in 1..Len(expected) : PluginsDirCandidates[i].path = expected[i]
    /\ \A p \in ArchivePaths :
          ~StartsWith(p, prefix \o "plugins/") =>
              extract_plugins_dir_path(p, prefix) = None
    /\ extract_plugins_dir_path("repo-main/.claude-plugin/plugin.json", "repo-main/") = None
    /\ extract_plugins_dir_path("repo-main/src/plugin.json", "repo-main/") = None
    /\ extract_plugins_dir_path("other-repo/plugins/foo/plugin.json", "repo-main/") = None
    /\ extract_plugins_dir_path("repo-main/plugins/code-review/.claude-plugin/plugin.json",
                                "repo-main/") = Some("plugins/code-review")

\* plugins/foo is the marketplace's, plugins/bar is registered once for its
\* two files, and the manifests of src/ and of the other repository give
\* nothing
C25_Witness ==
    /\ pc = "done"
    /\ prefix = "repo-main/"
    /\ {"repo-main/src/plugin.json", "other-repo/plugins/baz/plugin.json",
        "repo-main/plugins/bar/plugin.json", "repo-main/plugins/bar/extra/myplugin.json",
        "repo-main/plugins/foo/plugin.json"} \subseteq ArchivePaths
    /\ "plugins/foo" \in SeenBeforePluginsDir
    /\ PluginsDirCandidates = <<[path |-> "plugins/bar", method |-> "PluginsDir"]>>

(***************************************************************************)
(* Properties of manifest-based assembly                                   *)
(***************************************************************************)
FirstManifest(path) == BasePath(prefix, path) \o ".claude-plugin/plugin.json"
SecondManifest(path) == BasePath(prefix, path) \o "plugin.json"

\* the file at p exists and its text can be extracted
Extractable(p) == p \in ArchivePaths /\ TextAt(p).readable

\* the file at p exists and is a manifest that parses
WellFormedManifest(p) ==
    Extractable(p) /\ TextAt(p).valid /\ IsSome(TextAt(p).name)

\* the manifest-bearing candidates the assembly loop has taken
Taken ==
    {i \in 1..Len(detected) :
        /\ detected[i].method \in ManifestTiers
        /\ pc = "done" \/ (pc = "assemble" /\ i < next_det)}

\* the plugins assembled so far that lie at a path
AssembledAt(path) == {k \in 1..Len(plugins) : plugins[k].path = PathOption(path)}

\* C26: manifest-based assembly reads <base>.claude-plugin/plugin.json first
\* and <base>plugin.json only when the first cannot be extracted; a first file
\* that is extracted but malformed fails the candidate even beside a valid
\* <base>plugin.json; with neither file the candidate fails, whatever
\* components lie under it.
C26_FirstManifestThenFallback ==
    \A i \in Taken :
        LET path == detected[i].path
            first == FirstManifest(path)
            second == SecondManifest(path)
        IN  /\ Extractable(first) /\ WellFormedManifest(first) =>
                  /\ AssembledAt(path) # {}
                  /\ \A k \in AssembledAt(path) : plugins[k].name = TextAt(first).name[1]
            /\ Extractable(first) /\ ~WellFormedManifest(first) => AssembledAt(path) = {}
            /\ ~Extractable(first) /\ WellFormedManifest(second) =>
                  /\ AssembledAt(path) # {}
                  /\ \A k \in AssembledAt(path) : plugins[k].name = TextAt(second).name[1]
            /\ ~Extractable(first) /\ ~WellFormedManifest(second) => AssembledAt(path) = {}

\* plugins/foo has a malformed .claude-plugin/plugin.json, a valid plugin.json
\* and a skill: it is not in the result
C26_Witness ==
    /\ pc = "done"
    /\ \E i \in Taken : detected[i].path = "plugins/foo"
    /\ Extractable(FirstManifest("plugins/foo"))
    /\ ~WellFormedManifest(FirstManifest("plugins/foo"))
    /\ WellFormedManifest(SecondManifest("plugins/foo"))
    /\ "repo-main/plugins/foo/skills/gamma/SKILL.md" \in ArchivePaths
    /\ AssembledAt("plugins/foo") = {}

\* the fallback taken: .claude-plugin/plugin.json cannot be extracted and the
\* plugin is named by plugin.json
C26_FallbackTaken ==
    /\ pc = "done"
    /\ FirstManifest("plugins/foo") \in ArchivePaths
    /\ ~Extractable(FirstManifest("plugins/foo"))
    /\ \E k \in AssembledAt("plugins/foo") : plugins[k].name = "FooAlt"

(***************************************************************************)
(* Properties of the heuristic beside registered candidates                *)
(***************************************************************************)
\* the candidates tiers 1-3 registered
ManifestTierCandidates ==
    {i \in 1..Len(detected) : detected[i].method \in ManifestTiers}

\* the marketplace lists sources, all of them GitHub references or URLs
OnlyRemoteSourcesListed ==
    /\ ListedInMarketplace # <<>>
    /\ \A i \in 1..Len(ListedInMarketplace) :
          ListedInMarketplace[i].tag \in {"GitHub", "Url"}

\* C27: whenever tiers 1-3 register a candidate, discover_all produces no
\* synthetic plugin: no candidate is heuristic, every plugin of the result is
\* that of a registered candidate whose manifest is usable, and the result is
\* Ok and empty when no candidate assembles.  A marketplace listing only
\* GitHub or URL sources registers their reference strings as paths, and in
\* an archive with skills/ and commands/ and no other manifest the result is
\* Ok with an empty plugin list.
C27_NoSyntheticBesideCandidates ==
    /\ Detected /\ ManifestTierCandidates # {} =>
          /\ \A i \in 1..Len(detected) : detected[i].method # "ComponentHeuristic"
          /\ \A k \in 1..Len(plugins) :
                \E i \in ManifestTierCandidates :
                    /\ plugins[k].path = PathOption(detected[i].path)
                    /\ ManifestUsable(detected[i].path)
          /\ pc = "done" =>
                /\ IsSome(outcome) /\ outcome[1].ok
                /\ outcome[1].val.plugins = plugins
                /\ (\A i \in ManifestTierCandidates : ~ManifestUsable(detected[i].path))
                      => outcome[1].val.plugins = <<>>
    /\ Detected /\ OnlyRemoteSourcesListed =>
          /\ \A i \in 1..Len(ListedInMarketplace) :
                \E k \in ManifestTierCandidates :
                    detected[k] = [path |-> ListedInMarketplace[i].text,
                                   method |-> "Marketplace"]
          /\ /\ pc = "done"
             /\ {"skills/", "commands/"} \subseteq ComponentDirsPresent
             /\ FoundByRootManifest \cup FoundByPluginsDir = {}
             => /\ IsSome(outcome) /\ outcome[1].ok
                /\ outcome[1].val.plugins = <<>>
                /\ outcome[1].val.all_skills = <<>>

\* a GitHub reference and a URL are listed beside skills/ and commands/: both
\* are candidates, neither assembles, the result is Ok and empty
C27_Witness ==
    /\ pc = "done"
    /\ ListedInMarketplace = <<GitHub("owner/tool"), Url("https://example.com/tool")>>
    /\ ComponentDirsPresent = {"skills/", "commands/"}
    /\ Len(detected) = 2
    /\ outcome[1].ok /\ outcome[1].val.plugins = <<>>

(***************************************************************************)
(* Properties of parse_mcp_json: settings, typed entries, the fallback     *)
(***************************************************************************)
\* C28: every server parse_mcp_json returns is enabled and has no timeout; a
\* Stdio server has no working directory, an Http or Sse server an empty
\* header map, an Http server no OAuth configuration, whatever `disabled`,
\* `timeout`, `cwd` or `headers` its entry carries.
C28_SettingsNeverRead ==
    McpParsed /\ McpAnswer.ok =>
        \A name \in DOMAIN McpAnswer.val :
            LET server == McpAnswer.val[name]
            IN  /\ server.enabled = TRUE
                /\ server.timeout_ms = None
                /\ server.variant = "Stdio" => server.cwd = None
                /\ server.variant \in {"Http", "Sse"} => server.headers = EmptyMap
                /\ server.variant = "Http" => server.oauth = None

\* an Http entry written as disabled, with a timeout, a working directory and
\* a header, is returned enabled and bare
C28_Witness ==
    /\ McpParsed /\ McpAnswer.ok
    /\ \E i \in 1..Len(SourceEntries) :
          LET v == SourceEntries[i].value
          IN  /\ HasKey(v, "disabled") /\ Get(v.entries, "disabled")[1] = JBool(TRUE)
              /\ HasKey(v, "timeout") /\ HasKey(v, "cwd") /\ HasKey(v, "headers")
              /\ SourceEntries[i].key \in DOMAIN McpAnswer.val
              /\ McpAnswer.val[SourceEntries[i].key].variant = "Http"
              /\ McpAnswer.val[SourceEntries[i].key].enabled = TRUE

RemoteTypes == {"sse", "http", "streamable-http"}

\* the entry is an object whose `type` is one of the remote transports
TypedRemote(v) ==
    HasString(v, "type") /\ Get(v.entries, "type")[1].str \in RemoteTypes

\* C29: an entry typed "sse", "http" or "streamable-http" that has no `url`
\* but a `command` is not rejected: it gives an Sse or Http server whose url
\* is the command string; a typed remote entry is dropped only when `url`
\* and `command` are both absent.
C29_CommandStandsInForUrl ==
    McpParsed /\ McpAnswer.ok =>
        \A i \in 1..Len(SourceEntries) :
            LET name == SourceEntries[i].key
                v == SourceEntries[i].value
            IN  TypedRemote(v) =>
                  /\ ~HasString(v, "url") /\ HasString(v, "command") =>
                        /\ name \in DOMAIN McpAnswer.val
                        /\ McpAnswer.val[name].variant =
                              (IF Get(v.entries, "type")[1].str = "sse" THEN "Sse" ELSE "Http")
                        /\ McpAnswer.val[name].url = Get(v.entries, "command")[1].str
                  /\ name \notin DOMAIN McpAnswer.val
                        <=> (~HasString(v, "url") /\ ~HasString(v, "command"))

C29_Witness ==
    /\ McpParsed /\ McpAnswer.ok
    /\ \E i \in 1..Len(SourceEntries) :
          LET name == SourceEntries[i].key
              v == SourceEntries[i].value
          IN  /\ TypedRemote(v) /\ Get(v.entries, "type")[1].str = "streamable-http"
              /\ ~HasKey(v, "url") /\ HasString(v, "command")
              /\ name \in DOMAIN McpAnswer.val
              /\ McpAnswer.val[name].variant = "Http"
              /\ McpAnswer.val[name].url = "node"

\* a typed remote entry with neither url nor command is dropped
C29_DroppedWitness ==
    /\ McpParsed /\ McpAnswer.ok
    /\ \E i \in 1..Len(SourceEntries) :
          /\ TypedRemote(SourceEntries[i].value)
          /\ SourceEntries[i].key \notin DOMAIN McpAnswer.val

\* the text is JSON, an object, and has the key mcpServers
HasMcpServersKey == IsJsonObject(mcp_in) /\ IsSome(Get(TopLevel, "mcpServers"))

\* absent, null or a string
OptionalString(v, key) ==
    ~HasKey(v, key) \/ Get(v.entries, key)[1].kind \in {"null", "string"}

\* a JSON value with the fields of a server entry, each of its kind
EntryWellTyped(v) ==
    /\ v.kind = "object"
    /\ OptionalString(v, "command") /\ OptionalString(v, "url") /\ OptionalString(v, "type")
    /\ HasKey(v, "args") =>
          /\ Get(v.entries, "args")[1].kind = "array"
          /\ \A i \in 1..Len(Get(v.entries, "args")[1].items) :
                Get(v.entries, "args")[1].items[i].kind = "string"
    /\ HasKey(v, "env") =>
          /\ Get(v.entries, "env")[1].kind = "object"
          /\ \A i \in 1..Len(Get(v.entries, "env")[1].entries) :
                Get(v.entries, "env")[1].entries[i].value.kind = "string"

\* some entry under mcpServers is an object with a wrongly-typed field
WronglyTypedEntry ==
    \E i \in 1..Len(UnderMcpServers) :
        /\ UnderMcpServers[i].value.kind = "object"
        /\ ~EntryWellTyped(UnderMcpServers[i].value)

\* C30 as stated: parse_mcp_json reports no error for valid JSON with an
\* mcpServers key, and when an entry under mcpServers has a wrongly-typed
\* field it returns Ok with an empty map.
C30_NeverAShapeError ==
    McpParsed /\ HasMcpServersKey =>
        /\ McpAnswer.ok
        /\ WronglyTypedEntry => McpAnswer = Ok(EmptyMap)

EntryFieldNames == {"command", "args", "env", "url", "type"}

\* the top-level members other than mcpServers
Siblings == SelectSeq(TopLevel, LAMBDA m : m.key # "mcpServers")

\* C30, amended: for valid JSON whose mcpServers member is an object with
\* servers named otherwise than the fields of an entry, some entry of which
\* has a wrongly-typed field: the flat reading takes mcpServers itself for an
\* entry and drops it; when every other top-level member is a well-typed
\* entry the call returns Ok with servers of those members only (an empty map
\* when mcpServers is the only member), and no server under mcpServers is in
\* it; otherwise the call returns the JSON error.
C30_WrappedFailureFallsToFlat ==
    /\ McpParsed /\ HasMcpServersKey /\ WronglyTypedEntry
    /\ Keys(UnderMcpServers) \cap EntryFieldNames = {}
    => IF \A i \in 1..Len(Siblings) : EntryWellTyped(Siblings[i].value)
       THEN /\ McpAnswer.ok
            /\ DOMAIN McpAnswer.val \subseteq Keys(Siblings)
            /\ Siblings = <<>> => McpAnswer = Ok(EmptyMap)
       ELSE McpAnswer = Err("JsonParse")

\* of two servers under mcpServers one has a wrongly-typed command: the
\* well-formed one is lost with it
C30_Witness ==
    /\ McpParsed /\ HasMcpServersKey /\ WronglyTypedEntry
    /\ Len(UnderMcpServers) = 2
    /\ \E i \in 1..2 : /\ EntryWellTyped(UnderMcpServers[i].value)
                       /\ HasString(UnderMcpServers[i].value, "command")
    /\ McpAnswer = Ok(EmptyMap)

\* a server beside mcpServers survives the fallback
C30_SiblingKept ==
    /\ McpParsed /\ HasMcpServersKey /\ WronglyTypedEntry
    /\ McpAnswer.ok /\ DOMAIN McpAnswer.val = {"b"}

====
